---- MODULE Spec2Model ----
(***************************************************************************)
(* A model of typehunt's duplicate-detection core: the grouping engine     *)
(* (groupBy, filterDuplicateGroups), the shape normalizer (normalizeShape, *)
(* normalizeWhitespace) and the declaration extractor                      *)
(* (collectDeclarations).                                                  *)
(*                                                                         *)
(* A JavaScript string is modelled as a sequence of one-character strings, *)
(* so that the regular expressions of the source can be modelled by what   *)
(* they do to the characters.                                              *)
(***************************************************************************)
EXTENDS Integers, Sequences, FiniteSets, TLC

VARIABLES
    \* ---- grouping engine (run(), "Group & filter") ----
    effectiveDeclarations,  \* the record list handed to groupBy
    minCount,               \* options.minCount
    nameMap,                \* groupBy(effectiveDeclarations, d => d.name)
    shapeMap,               \* groupBy(effectiveDeclarations, d => d.normalizedShape)
    nameGroups,             \* filterDuplicateGroups(nameMap, minCount)
    shapeGroups,            \* filterDuplicateGroups(shapeMap, minCount)
    groupRuns,              \* how many times the grouping pass has run
    inputAtStart,           \* the record list as it was before the first pass
    prevNameGroups,         \* nameGroups of the pass before the last one
    prevShapeGroups,        \* shapeGroups of the pass before the last one
    \* ---- shape normalizer (normalizeShape) ----
    rawSnippet,             \* the rawSnippet argument
    declName,               \* the name argument
    plainSnippet,           \* rawSnippet without the inserted comment or whitespace
    declForm,               \* "interface" or "type": the form of the declaration
    declMembers,            \* the member signatures of the declaration
    compactText,            \* compact after normalizeWhitespace(rawSnippet)
    namedText,              \* compact after the name has been replaced
    normalizedShape,        \* the value normalizeShape returns
    normDone,               \* whether normalizeShape has returned
    \* ---- declaration extractor (collectDeclarations) ----
    sourceFile,             \* the syntax tree of the file
    includeEnums,           \* options.includeEnums
    records,                \* the records collectDeclarations returns
    collectDone,            \* whether collectDeclarations has returned
    \* ---- run() and collectAllDeclarations ----
    argv,                   \* process.argv.slice(2)
    rootIsDirectory,        \* whether options.root is a directory on disk
    scanResult,             \* the files the scanner finds, with their contents
    phase,                  \* where run() stands
    options,                \* the options parseArgs returned
    files,                  \* the file list of run()
    fileSource,             \* meta.fileSource
    offset,                 \* the loop variable of collectAllDeclarations
    batch,                  \* the places in files of the batch being read
    concurrency,            \* the batch size of collectAllDeclarations
    inFlight,               \* the reads of the batch that have not settled
    settled,                \* the results of the last batch, as they came
    declarations,           \* the records collected so far
    errors,                 \* the file errors collected so far
    stdout,                 \* what has been written to stdout
    stderr,                 \* what has been written to stderr
    written,                \* the files writeOutputFile has written
    exitCode,               \* the exit code of the process, -1 while it runs
    readsStarted,           \* how many fs.readFile calls have been made
    \* ---- one call of a function of utils.ts ----
    callee,                 \* the function called, "none" when there is no call
    callArgs,               \* the arguments of the call
    returned,               \* what the call returned
    callDone                \* whether the call has returned

gvars == <<effectiveDeclarations, minCount, nameMap, shapeMap, nameGroups,
           shapeGroups, groupRuns, inputAtStart, prevNameGroups, prevShapeGroups>>

nvars == <<rawSnippet, declName, plainSnippet, declForm, declMembers,
           compactText, namedText, normalizedShape, normDone>>

cvars == <<sourceFile, includeEnums, records, collectDone>>

rvars == <<argv, rootIsDirectory, scanResult, phase, options, files, fileSource,
           offset, batch, inFlight, settled, declarations, errors, stdout,
           stderr, written, exitCode, readsStarted, concurrency>>

uvars == <<callee, callArgs, returned, callDone>>

vars == <<gvars, nvars, cvars, rvars, uvars>>

(***************************************************************************)
(* Bounds of the model.                                                    *)
(***************************************************************************)
MaxRecords == 5
MaxMinCount == 3
MaxGroupRuns == 2
MaxMembers == 2
MaxStatements == 3
MaxNested == 1
MaxFiles == 2
MaxArgs == 2
MaxPatterns == 2
MaxSnippetLength == 6
MaxBatchFiles == 3
MaxConcurrency == 2

(***************************************************************************)
(* Constants of the program.                                               *)
(***************************************************************************)
\* parseArgs rejects a --min below 2; the default is 2.
MinMinCount == 2

(***************************************************************************)
(* Characters.                                                             *)
(***************************************************************************)
LowerCase == <<"a","b","c","d","e","f","g","h","i","j","k","l","m",
               "n","o","p","q","r","s","t","u","v","w","x","y","z">>
UpperCase == <<"A","B","C","D","E","F","G","H","I","J","K","L","M",
               "N","O","P","Q","R","S","T","U","V","W","X","Y","Z">>

Range(s) == {s[i] : i \in 1..Len(s)}

IsLower(c) == c \in Range(LowerCase)
IsUpper(c) == c \in Range(UpperCase)

\* The position of a letter in the alphabet, 1..26, whatever its case.
LetterIndex(c) ==
    IF IsLower(c) THEN CHOOSE i \in 1..26 : LowerCase[i] = c
                  ELSE CHOOSE i \in 1..26 : UpperCase[i] = c

\* The UTF-16 code unit of a letter.
CodeUnit(c) == IF IsLower(c) THEN 96 + LetterIndex(c) ELSE 64 + LetterIndex(c)

(***************************************************************************)
(* String.prototype.localeCompare on strings of ASCII letters, as the      *)
(* default (root / en) collation orders them: first by the letters with    *)
(* case ignored (a shorter prefix first), and only when those are equal by *)
(* case, lowercase before uppercase, at the first position that differs.   *)
(***************************************************************************)
RECURSIVE ComparePrimary(_, _)
ComparePrimary(a, b) ==
    IF a = <<>> /\ b = <<>> THEN 0
    ELSE IF a = <<>> THEN -1
    ELSE IF b = <<>> THEN 1
    ELSE IF LetterIndex(Head(a)) < LetterIndex(Head(b)) THEN -1
    ELSE IF LetterIndex(Head(a)) > LetterIndex(Head(b)) THEN 1
    ELSE ComparePrimary(Tail(a), Tail(b))

RECURSIVE CompareTertiary(_, _)
CompareTertiary(a, b) ==
    IF a = <<>> \/ b = <<>> THEN 0
    ELSE IF IsLower(Head(a)) /\ IsUpper(Head(b)) THEN -1
    ELSE IF IsUpper(Head(a)) /\ IsLower(Head(b)) THEN 1
    ELSE CompareTertiary(Tail(a), Tail(b))

localeCompare(a, b) ==
    IF ComparePrimary(a, b) # 0 THEN ComparePrimary(a, b)
    ELSE CompareTertiary(a, b)

\* The comparison of two strings by their code units, left to right (the
\* order of JavaScript's < on strings).
RECURSIVE CompareCodeUnits(_, _)
CompareCodeUnits(a, b) ==
    IF a = <<>> /\ b = <<>> THEN 0
    ELSE IF a = <<>> THEN -1
    ELSE IF b = <<>> THEN 1
    ELSE IF CodeUnit(Head(a)) < CodeUnit(Head(b)) THEN -1
    ELSE IF CodeUnit(Head(a)) > CodeUnit(Head(b)) THEN 1
    ELSE CompareCodeUnits(Tail(a), Tail(b))

(***************************************************************************)
(* groupBy: a Map is a sequence of entries in insertion order.             *)
(***************************************************************************)
\* The two key functions of run(): d => d.name and d => d.normalizedShape,
\* each named by the field it reads.
KeyOf(d, keyFn) == d[keyFn]

MapHas(map, key) == \E i \in 1..Len(map) : map[i].key = key

\* existing.push(item) on the entry of `key`.
MapPush(map, key, item) ==
    [i \in 1..Len(map) |->
        IF map[i].key = key
        THEN [key |-> key, items |-> Append(map[i].items, item)]
        ELSE map[i]]

\* A groupBy whose new item goes to the front of its bucket.
GroupByStep_Unshift(map, item, keyFn) ==
    IF MapHas(map, KeyOf(item, keyFn))
    THEN [i \in 1..Len(map) |->
            IF map[i].key = KeyOf(item, keyFn)
            THEN [key |-> map[i].key, items |-> <<item>> \o map[i].items]
            ELSE map[i]]
    ELSE Append(map, [key |-> KeyOf(item, keyFn), items |-> <<item>>])

\* One iteration of the for-of loop of groupBy.
GroupByStep(map, item, keyFn) ==
    IF MapHas(map, KeyOf(item, keyFn))
    THEN MapPush(map, KeyOf(item, keyFn), item)
    ELSE Append(map, [key |-> KeyOf(item, keyFn), items |-> <<item>>])

RECURSIVE GroupByLoop(_, _, _, _)
GroupByLoop(map, items, i, keyFn) ==
    IF i > Len(items) THEN map
    ELSE GroupByLoop(GroupByStep(map, items[i], keyFn), items, i + 1, keyFn)

groupBy(items, keyFn) == GroupByLoop(<<>>, items, 1, keyFn)

\* A groupBy that consumes its input (items.shift() in place of for-of).
ItemsAfterGroupBy_Drained(items) == <<>>

\* The items array after groupBy has returned: the loop only reads it.
ItemsAfterGroupBy(items) == items

(***************************************************************************)
(* filterDuplicateGroups.                                                  *)
(***************************************************************************)
\* A comparator that orders ties by descending key.
CompareGroups_TiesDescending(a, b) ==
    IF Len(b.items) - Len(a.items) # 0
    THEN Len(b.items) - Len(a.items)
    ELSE localeCompare(b.key, a.key)

\* (a, b) => b[1].length - a[1].length || a[0].localeCompare(b[0])
CompareGroups(a, b) ==
    IF Len(b.items) - Len(a.items) # 0
    THEN Len(b.items) - Len(a.items)
    ELSE localeCompare(a.key, b.key)

\* Array.prototype.sort is stable: an element goes after every element that
\* does not compare greater than it.
RECURSIVE InsertSorted(_, _)
InsertSorted(sorted, x) ==
    IF sorted = <<>> THEN <<x>>
    ELSE IF CompareGroups(Head(sorted), x) <= 0
         THEN <<Head(sorted)>> \o InsertSorted(Tail(sorted), x)
         ELSE <<x>> \o sorted

RECURSIVE SortGroups(_, _)
SortGroups(sorted, rest) ==
    IF rest = <<>> THEN sorted
    ELSE SortGroups(InsertSorted(sorted, Head(rest)), Tail(rest))

\* A filter that is off by one.
MeetsMinCount_Strict(entry, min) == Len(entry.items) > min

\* ([, items]) => items.length >= minCount
MeetsMinCount(entry, min) == Len(entry.items) >= min

filterDuplicateGroups(groups, min) ==
    SortGroups(<<>>, SelectSeq(groups, LAMBDA e : MeetsMinCount(e, min)))

(***************************************************************************)
(* The record lists the grouping pass is applied to.                       *)
(***************************************************************************)
NamePool == { <<"a">>, <<"B">>, <<"a","b">> }
ShapePool == { <<>>, <<"A">> }

\* The (name, fingerprint) pairs the records are drawn from: two names that
\* localeCompare and the code units order differently, each with either
\* fingerprint, and a third name.
RecordPool ==
    { <<n, s>> : n \in { <<"a">>, <<"B">> }, s \in ShapePool }
        \cup { << <<"a","b">>, <<>> >> }

RecordLists == UNION { [1..n -> RecordPool] : n \in 0..MaxRecords }

\* The i-th record of a list of (name, shape) pairs; its line tells two
\* records of the same name and shape apart.
MakeRecords(pairs) ==
    [i \in 1..Len(pairs) |->
        [name |-> pairs[i][1], normalizedShape |-> pairs[i][2], line |-> i]]

(***************************************************************************)
(* Text: the character classes of the regular expressions.                 *)
(***************************************************************************)
Digits == {"0","1","2","3","4","5","6","7","8","9"}

\* \w
IsWordChar(c) == IsLower(c) \/ IsUpper(c) \/ c \in Digits \/ c = "_"

\* \s (the whitespace the model's texts hold)
IsSpace(c) == c \in {" ", "\t", "\n", "\r"}

\* A line terminator: what . does not match and $ (with the m flag) stops at.
IsLineTerminator(c) == c \in {"\n", "\r"}

\* A character of a TypeScript identifier.
IsIdentChar(c) == IsWordChar(c) \/ c = "$"

\* Whether `pat` occurs in `text` at index i.
StartsWithAt(text, i, pat) ==
    /\ i >= 1
    /\ i + Len(pat) - 1 <= Len(text)
    /\ SubSeq(text, i, i + Len(pat) - 1) = pat

\* \b at index i: between text[i-1] and text[i], one is a word character and
\* the other is not (the ends of the text count as not).
WordBoundaryAt(text, i) ==
    (i > 1 /\ i - 1 <= Len(text) /\ IsWordChar(text[i - 1]))
        # (i >= 1 /\ i <= Len(text) /\ IsWordChar(text[i]))

\* The index after the run of whitespace that starts at i (i itself if none).
RECURSIVE SkipSpaces(_, _)
SkipSpaces(text, i) ==
    IF i <= Len(text) /\ IsSpace(text[i]) THEN SkipSpaces(text, i + 1) ELSE i

PLACEHOLDER == <<"_","_","N","A","M","E","_","_">>

\* The first of a set of indices: where the leftmost match starts.
First(indices) == CHOOSE k \in indices : \A l \in indices : k <= l

(***************************************************************************)
(* normalizeWhitespace.                                                    *)
(***************************************************************************)
\* The indices at which a block comment opened at i can close.
BlockCommentEnds(text, i) ==
    {j \in (i + 2)..Len(text) : StartsWithAt(text, j, <<"*","/">>)}

\* .replace(/\/\*[\s\S]*?\*\//g, " "), from index i on: each comment, up to
\* its first closing, becomes one space.
RECURSIVE StripBlockComments(_, _)
StripBlockComments(text, i) ==
    LET opens == {j \in i..Len(text) :
                     StartsWithAt(text, j, <<"/","*">>) /\ BlockCommentEnds(text, j) # {}}
    IN  IF opens = {} THEN SubSeq(text, i, Len(text))
        ELSE SubSeq(text, i, First(opens) - 1) \o <<" ">>
                 \o StripBlockComments(text, First(BlockCommentEnds(text, First(opens))) + 2)

\* The index of the first line terminator at or after i (Len + 1 if none).
RECURSIVE EndOfLine(_, _)
EndOfLine(text, i) ==
    IF i > Len(text) \/ IsLineTerminator(text[i]) THEN i
    ELSE EndOfLine(text, i + 1)

\* .replace(/\/\/.*$/gm, " "), from index i on.
RECURSIVE StripLineComments(_, _)
StripLineComments(text, i) ==
    LET opens == {j \in i..Len(text) : StartsWithAt(text, j, <<"/","/">>)}
    IN  IF opens = {} THEN SubSeq(text, i, Len(text))
        ELSE SubSeq(text, i, First(opens) - 1) \o <<" ">>
                 \o StripLineComments(text, EndOfLine(text, First(opens) + 2))

\* .replace(/\s+/g, " "), from index i on.
RECURSIVE CollapseWhitespace(_, _)
CollapseWhitespace(text, i) ==
    LET spaces == {j \in i..Len(text) : IsSpace(text[j])}
    IN  IF spaces = {} THEN SubSeq(text, i, Len(text))
        ELSE SubSeq(text, i, First(spaces) - 1) \o <<" ">>
                 \o CollapseWhitespace(text, SkipSpaces(text, First(spaces)))

\* The index of the last character that is not whitespace (0 if none).
RECURSIVE LastNonSpace(_, _)
LastNonSpace(text, i) ==
    IF i >= 1 /\ IsSpace(text[i]) THEN LastNonSpace(text, i - 1) ELSE i

\* .trim()
Trim(text) == SubSeq(text, SkipSpaces(text, 1), LastNonSpace(text, Len(text)))

normalizeWhitespace(text) ==
    Trim(CollapseWhitespace(
             StripLineComments(StripBlockComments(text, 1), 1), 1))

(***************************************************************************)
(* escapeRegExp and the pattern new RegExp(`\\b${escaped}\\b`, "g").       *)
(***************************************************************************)
\* The characters of [.*+?^${}()|[\]\\]
RegExpSpecials ==
    {".", "*", "+", "?", "^", "$", "{", "}", "(", ")", "|", "[", "]", "\\"}

\* value.replace(/[.*+?^${}()|[\]\\]/g, "\\$&")
RECURSIVE escapeRegExp(_)
escapeRegExp(value) ==
    IF value = <<>> THEN <<>>
    ELSE IF Head(value) \in RegExpSpecials
    THEN <<"\\", Head(value)>> \o escapeRegExp(Tail(value))
    ELSE <<Head(value)>> \o escapeRegExp(Tail(value))

\* The atoms of a pattern source made of identifier characters and escapes:
\* a backslash makes the next character a literal, a bare $ is the assertion
\* "end of input", any other character is a literal.
RECURSIVE PatternAtoms(_)
PatternAtoms(source) ==
    IF source = <<>> THEN <<>>
    ELSE IF Head(source) = "\\" /\ Len(source) >= 2
    THEN <<[lit |-> TRUE, ch |-> source[2]]>> \o PatternAtoms(Tail(Tail(source)))
    ELSE IF Head(source) = "$"
    THEN <<[lit |-> FALSE, ch |-> "$"]>> \o PatternAtoms(Tail(source))
    ELSE <<[lit |-> TRUE, ch |-> Head(source)]>> \o PatternAtoms(Tail(source))

\* The index after a match of atoms k.. at index i of text, or 0 if none.
RECURSIVE MatchAtoms(_, _, _, _)
MatchAtoms(text, i, atoms, k) ==
    IF k > Len(atoms) THEN i
    ELSE IF atoms[k].lit
    THEN IF i <= Len(text) /\ text[i] = atoms[k].ch
         THEN MatchAtoms(text, i + 1, atoms, k + 1)
         ELSE 0
    ELSE IF i = Len(text) + 1 THEN MatchAtoms(text, i, atoms, k + 1) ELSE 0

\* The index after a match of \b<atoms>\b at index i, or 0 if there is none.
NameMatchEnd(text, i, atoms) ==
    LET end == MatchAtoms(text, i, atoms, 1)
    IN  IF end # 0 /\ WordBoundaryAt(text, i) /\ WordBoundaryAt(text, end)
        THEN end
        ELSE 0

\* compact.replace(namedPattern, "__NAME__"), from index i on.
RECURSIVE ReplaceMatches(_, _, _)
ReplaceMatches(text, i, atoms) ==
    LET matches == {j \in i..Len(text) : NameMatchEnd(text, j, atoms) > j}
    IN  IF matches = {} THEN SubSeq(text, i, Len(text))
        ELSE SubSeq(text, i, First(matches) - 1) \o PLACEHOLDER
                 \o ReplaceMatches(text, NameMatchEnd(text, First(matches), atoms), atoms)

ReplaceName(compact, name) ==
    ReplaceMatches(compact, 1, PatternAtoms(escapeRegExp(name)))

(***************************************************************************)
(* The rewrites of normalizeShape.                                         *)
(***************************************************************************)
\* The index after a match of /\binterface\s+__NAME__\s*\{/ at i, or 0.
InterfaceMatchEnd(text, i) ==
    LET afterKw == i + 9
        afterWs == SkipSpaces(text, afterKw)
        afterName == afterWs + Len(PLACEHOLDER)
        brace == SkipSpaces(text, afterName)
    IN  IF /\ StartsWithAt(text, i, <<"i","n","t","e","r","f","a","c","e">>)
           /\ WordBoundaryAt(text, i)
           /\ afterWs > afterKw
           /\ StartsWithAt(text, afterWs, PLACEHOLDER)
           /\ StartsWithAt(text, brace, <<"{">>)
        THEN brace + 1
        ELSE 0

\* A normalizeShape that leaves the interface form as it is.
RewriteInterface_Skipped(text) == text

\* A rewrite that takes place only where the text begins with the match.
RewriteInterface_Anchored(text) ==
    IF InterfaceMatchEnd(text, 1) # 0
    THEN <<"t","y","p","e"," ","_","_","N","A","M","E","_","_"," ","="," ","{">>
             \o SubSeq(text, InterfaceMatchEnd(text, 1), Len(text))
    ELSE text

\* compact.replace(/\binterface\s+__NAME__\s*\{/, "type __NAME__ = {"): the
\* first match only.
RewriteInterface(text) ==
    LET starts == {i \in 1..Len(text) : InterfaceMatchEnd(text, i) # 0}
    IN  IF starts = {} THEN text
        ELSE LET i == CHOOSE k \in starts : \A l \in starts : k <= l
             IN  SubSeq(text, 1, i - 1)
                     \o <<"t","y","p","e"," ","_","_","N","A","M","E","_","_"," ","="," ","{">>
                     \o SubSeq(text, InterfaceMatchEnd(text, i), Len(text))

\* compact.replace(/^export\s+/, "")
StripExport(text) ==
    IF StartsWithAt(text, 1, <<"e","x","p","o","r","t">>) /\ SkipSpaces(text, 7) > 7
    THEN SubSeq(text, SkipSpaces(text, 7), Len(text))
    ELSE text

\* The index after a match of /\bconst\s+enum\b/ at i, or 0.
ConstEnumMatchEnd(text, i) ==
    LET afterWs == SkipSpaces(text, i + 5)
    IN  IF /\ StartsWithAt(text, i, <<"c","o","n","s","t">>)
           /\ WordBoundaryAt(text, i)
           /\ afterWs > i + 5
           /\ StartsWithAt(text, afterWs, <<"e","n","u","m">>)
           /\ WordBoundaryAt(text, afterWs + 4)
        THEN afterWs + 4
        ELSE 0

\* compact.replace(/\bconst\s+enum\b/, "enum"): the first match only.
RewriteConstEnum(text) ==
    LET starts == {i \in 1..Len(text) : ConstEnumMatchEnd(text, i) # 0}
    IN  IF starts = {} THEN text
        ELSE LET i == CHOOSE k \in starts : \A l \in starts : k <= l
             IN  SubSeq(text, 1, i - 1) \o <<"e","n","u","m">>
                     \o SubSeq(text, ConstEnumMatchEnd(text, i), Len(text))

\* A normalizeShape that leaves the trailing semicolon where it is.
StripTrailingSemicolon_Kept(text) == text

\* compact.replace(/\s*;\s*$/, ""): the last semicolon, when only whitespace
\* follows it, goes with the whitespace around it.
StripTrailingSemicolon(text) ==
    LET last == LastNonSpace(text, Len(text))
    IN  IF last >= 1 /\ text[last] = ";"
        THEN SubSeq(text, 1, LastNonSpace(text, last - 1))
        ELSE text

\* The statements of normalizeShape after the name has been replaced.
RewriteNamed(named) ==
    StripTrailingSemicolon(RewriteConstEnum(StripExport(RewriteInterface(named))))

normalizeShape(snippet, name) ==
    RewriteNamed(ReplaceName(normalizeWhitespace(snippet), name))

(***************************************************************************)
(* The declarations normalizeShape is applied to: a snippet is the         *)
(* concatenation of lexical pieces.                                        *)
(***************************************************************************)
RECURSIVE Flatten(_)
Flatten(pieces) ==
    IF pieces = <<>> THEN <<>> ELSE Head(pieces) \o Flatten(Tail(pieces))

SP == <<" ">>

\* The names a declaration is given: a plain one, one that is also a keyword
\* the interface rewrite emits, and one with a character that is not \w.
DeclNames == { <<"F","o","o">>, <<"t","y","p","e">>, <<"$","F","o","o">> }

\* Member signatures: one whose type is a longer identifier that starts with
\* Foo, one that refers to Foo, and one whose type is Foo$.
MemberPool ==
    { << <<"b","a","r">>, <<":">>, SP, <<"F","o","o","B","a","r">>, <<";">>, SP >>,
      << <<"n","e","x","t">>, <<":">>, SP, <<"F","o","o">>, <<"[">>, <<"]">>, <<";">>, SP >>,
      << <<"y">>, <<":">>, SP, <<"F","o","o","$">>, <<";">>, SP >> }

MemberLists == UNION { [1..n -> MemberPool] : n \in 0..MaxMembers }

\* `export ` when the declaration is exported.
ExportPieces(exported) == IF exported THEN << <<"e","x","p","o","r","t">>, SP >> ELSE <<>>

\* `interface N `, `type N = `, `enum N ` or `const enum N `
HeadPieces(form, name) ==
    IF form = "interface"
    THEN << <<"i","n","t","e","r","f","a","c","e">>, SP, name, SP >>
    ELSE IF form = "enum"
    THEN << <<"e","n","u","m">>, SP, name, SP >>
    ELSE IF form = "const enum"
    THEN << <<"c","o","n","s","t">>, SP, <<"e","n","u","m">>, SP, name, SP >>
    ELSE << <<"t","y","p","e">>, SP, name, SP, <<"=">>, SP >>

\* `{ members }`
BodyPieces(members) == << <<"{">>, SP >> \o Flatten(members) \o << <<"}">> >>

SemicolonPieces(semicolon) == IF semicolon THEN << <<";">> >> ELSE <<>>

\* What may be inserted between two pieces of the body: a line break, a
\* block comment, a line comment with its line break.
Decorations ==
    { <<"\n">>,
      <<"/","*"," ","c"," ","*","/">>,
      <<"/","/"," ","c","\n">> }

\* The body with `decoration` inserted after its piece `gap` (0: nowhere).
DecoratedBody(members, decoration, gap) ==
    IF gap = 0 THEN BodyPieces(members)
    ELSE SubSeq(BodyPieces(members), 1, gap)
             \o <<decoration>>
             \o SubSeq(BodyPieces(members), gap + 1, Len(BodyPieces(members)))

SnippetOf(form, exported, name, members, semicolon, decoration, gap) ==
    Flatten(ExportPieces(exported)
                \o HeadPieces(form, name)
                \o DecoratedBody(members, decoration, gap)
                \o SemicolonPieces(semicolon))

\* const MAX_SNIPPET_LENGTH = 200
MAX_SNIPPET_LENGTH == 200

(***************************************************************************)
(* The syntax tree ts.createSourceFile returns, as far as                  *)
(* collectDeclarations reads it: a node has a kind, a name (declarations), *)
(* a module specifier and an export clause (export declarations), child    *)
(* nodes in source order, and the line it starts on.                       *)
(***************************************************************************)
Node(kind, name, moduleSpecifier, clause, elements, children) ==
    [kind |-> kind, name |-> name, moduleSpecifier |-> moduleSpecifier,
     clause |-> clause, elements |-> elements, children |-> children, line |-> 0,
     text |-> <<>>, typeKind |-> "", members |-> <<>>]

\* The node with the text of its source span,
\* sourceText.slice(node.getStart(sourceFile), node.end).
WithText(node, text) == [node EXCEPT !.text = text]

\* An element of a named export clause: `propertyName as name`, or `name`.
ExportElement(name, propertyName) == [name |-> name, propertyName |-> propertyName]

\* interface A {}, type B = {}, enum E {}
DeclarationNodes ==
    { WithText(Node("InterfaceDeclaration", <<"A">>, FALSE, "none", <<>>, <<>>),
               <<"i","n","t","e","r","f","a","c","e"," ","A"," ","{","}">>),
      [WithText(Node("TypeAliasDeclaration", <<"B">>, FALSE, "none", <<>>, <<>>),
                <<"t","y","p","e"," ","B"," ","="," ","{","}",";">>)
          EXCEPT !.typeKind = "TypeLiteral"],
      WithText(Node("EnumDeclaration", <<"E">>, FALSE, "none", <<>>, <<>>),
               <<"e","n","u","m"," ","E"," ","{","}">>) }

\* export { A, B as C } from "./m";  export * from "./m";  export { A };
ExportNodes ==
    { WithText(Node("ExportDeclaration", <<>>, TRUE, "named",
                    <<ExportElement(<<"A">>, <<>>), ExportElement(<<"C">>, <<"B">>)>>,
                    <<>>),
               <<"e","x","p","o","r","t"," ","{"," ","A",","," ","B"," ","a","s"," ","C"," ","}"," ","f","r","o","m"," ","\"",".","/","m","\"",";">>),
      WithText(Node("ExportDeclaration", <<>>, TRUE, "none", <<>>, <<>>),
               <<"e","x","p","o","r","t"," ","*"," ","f","r","o","m"," ","\"",".","/","m","\"",";">>),
      WithText(Node("ExportDeclaration", <<>>, FALSE, "named",
                    <<ExportElement(<<"A">>, <<>>)>>, <<>>),
               <<"e","x","p","o","r","t"," ","{"," ","A"," ","}",";">>) }

\* What a namespace body holds: interface N {}, export { X } from "./m";
NestedNodes ==
    { WithText(Node("InterfaceDeclaration", <<"N">>, FALSE, "none", <<>>, <<>>),
               <<"i","n","t","e","r","f","a","c","e"," ","N"," ","{","}">>),
      WithText(Node("ExportDeclaration", <<>>, TRUE, "named",
                    <<ExportElement(<<"X">>, <<>>)>>, <<>>),
               <<"e","x","p","o","r","t"," ","{"," ","X"," ","}"," ","f","r","o","m"," ","\"",".","/","m","\"",";">>) }

\* namespace S { ... }
NamespaceNodes ==
    { Node("ModuleDeclaration", <<"S">>, FALSE, "none", <<>>, body) :
        body \in UNION { [1..n -> NestedNodes] : n \in 0..MaxNested } }

\* A member of a declaration as extractPropertyNames reads it: the kind of
\* the member node, member.name.getText(sourceFile), and its source text.
Member(kind, name, text) == [kind |-> kind, name |-> name, text |-> text]

\* b: string;  a: number;  m(): void;
SignaturePool ==
    { Member("PropertySignature", <<"b">>, <<"b",":"," ","s","t","r","i","n","g",";">>),
      Member("PropertySignature", <<"a">>, <<"a",":"," ","n","u","m","b","e","r",";">>),
      Member("MethodSignature", <<"m">>, <<"m","(",")",":"," ","v","o","i","d",";">>) }

\* b,  a,
EnumMemberPool ==
    { Member("EnumMember", <<"b">>, <<"b",",">>),
      Member("EnumMember", <<"a">>, <<"a",",">>) }

\* The node with its members. typeKind is the kind of node.type of a type
\* alias ("" for the other declarations); the members of a type alias are
\* those of its type literal, or of the literal operand of an intersection.
WithMembers(node, typeKind, members) ==
    [node EXCEPT !.typeKind = typeKind, !.members = members]

\* The texts of the members, a space after each.
RECURSIVE MemberPieces(_)
MemberPieces(members) ==
    IF members = <<>> THEN <<>>
    ELSE << Head(members).text, SP >> \o MemberPieces(Tail(members))

\* `interface P { ... }`, `type P = { ... }`, `type P = { ... } & Q`,
\* `enum P { ... }` with the members of `members`.
MemberDeclaration(kind, typeKind, members) ==
    WithMembers(
        WithText(Node(kind, <<"P">>, FALSE, "none", <<>>, <<>>),
                 Flatten(HeadPieces(IF kind = "InterfaceDeclaration" THEN "interface"
                                    ELSE IF kind = "EnumDeclaration" THEN "enum"
                                    ELSE "type", <<"P">>)
                             \o << <<"{">>, SP >> \o MemberPieces(members) \o << <<"}">> >>
                             \o (IF typeKind = "IntersectionType"
                                 THEN << SP, <<"&">>, SP, <<"Q">> >> ELSE <<>>))),
        typeKind, members)

\* type P = "x" | "y"
UnionAlias ==
    WithMembers(
        WithText(Node("TypeAliasDeclaration", <<"P">>, FALSE, "none", <<>>, <<>>),
                 <<"t","y","p","e"," ","P"," ","="," ","\"","x","\""," ","|"," ","\"","y","\"">>),
        "UnionType", <<>>)

\* The declarations that have members.
MemberNodes ==
    UNION { { MemberDeclaration("InterfaceDeclaration", "", members),
              MemberDeclaration("TypeAliasDeclaration", "TypeLiteral", members),
              MemberDeclaration("TypeAliasDeclaration", "IntersectionType", members) } :
              members \in UNION { [1..n -> SignaturePool] : n \in 0..MaxMembers } }
      \cup { MemberDeclaration("EnumDeclaration", "", members) :
               members \in UNION { [1..n -> EnumMemberPool] : n \in 0..MaxMembers } }
      \cup { UnionAlias }

\* An identifier of MAX_SNIPPET_LENGTH + 1 characters.
LongIdentifier == <<"T">> \o [i \in 1..MAX_SNIPPET_LENGTH |-> "x"]

\* interface L { a: Txx...x; b: U }  and the same with c in the place of b;
\* then export { L, Txx...x as b } from "./m";  and the same with c.
LongNodes ==
    UNION { { WithMembers(
                  WithText(Node("InterfaceDeclaration", <<"L">>, FALSE, "none", <<>>, <<>>),
                           <<"i","n","t","e","r","f","a","c","e"," ","L"," ","{"," ","a",":"," ">> \o LongIdentifier \o <<";"," ">> \o last \o <<":"," ","U"," ","}">>),
                  "",
                  << Member("PropertySignature", <<"a">>,
                            <<"a",":"," ">> \o LongIdentifier \o <<";">>),
                     Member("PropertySignature", last, last \o <<":"," ","U">>) >>),
              WithText(Node("ExportDeclaration", <<>>, TRUE, "named",
                            << ExportElement(<<"L">>, <<>>),
                               ExportElement(last, LongIdentifier) >>,
                            <<>>),
                       <<"e","x","p","o","r","t"," ","{"," ","L",","," ">> \o LongIdentifier \o <<" ","a","s"," ">> \o last \o <<" ","}"," ","f","r","o","m"," ","\"",".","/","m","\"",";">>) } :
              last \in { <<"b">>, <<"c">> } }

\* The files of one declaration with members, and those of two statements
\* longer than MAX_SNIPPET_LENGTH.
DetailLists ==
    { <<node>> : node \in MemberNodes }
        \cup { <<first, second>> : first \in LongNodes, second \in LongNodes }

\* The number of statements of a list, those of namespace bodies included.
RECURSIVE StatementCount(_)
StatementCount(nodes) ==
    IF nodes = <<>> THEN 0
    ELSE 1 + StatementCount(Head(nodes).children) + StatementCount(Tail(nodes))

\* The files: at most MaxStatements statements, nested ones included.
StatementLists ==
    { statements \in
          UNION { [1..n -> DeclarationNodes \cup ExportNodes \cup NamespaceNodes] :
                    n \in 0..MaxStatements } :
        StatementCount(statements) <= MaxStatements }

\* The nodes of a namespace body that starts on line `line`, one per line.
WithLinesFrom(nodes, line) ==
    [i \in 1..Len(nodes) |-> [nodes[i] EXCEPT !.line = line + i]]

\* The statements of a file whose first statement starts on line `line`: each
\* statement and each statement of a namespace body is on a line of its own.
RECURSIVE StatementsFrom(_, _)
StatementsFrom(nodes, line) ==
    IF nodes = <<>> THEN <<>>
    ELSE << [Head(nodes) EXCEPT
               !.line = line,
               !.children = WithLinesFrom(Head(nodes).children, line)] >>
             \o StatementsFrom(Tail(nodes), line + 1 + Len(Head(nodes).children))

\* ts.createSourceFile: the SourceFile node of a file with these statements.
createSourceFile(statements) ==
    [kind |-> "SourceFile", name |-> <<>>, moduleSpecifier |-> FALSE,
     clause |-> "none", elements |-> <<>>,
     children |-> StatementsFrom(statements, 1), line |-> 1,
     text |-> <<>>, typeKind |-> "", members |-> <<>>, fileName |-> <<"f","i","l","e",".","t","s">>]

\* The SourceFile node of the file `fileName` with these statements.
SourceFileNamed(fileName, statements) ==
    [createSourceFile(statements) EXCEPT !.fileName = fileName]

(***************************************************************************)
(* formatSnippet: the compact text, cut to maxLength with an ellipsis.     *)
(***************************************************************************)

\* text.slice(0, end): an end below zero counts from the end of the text.
SliceTo(text, end) ==
    LET last == IF end < 0 THEN Len(text) + end ELSE end
    IN  SubSeq(text, 1, IF last < 0 THEN 0
                        ELSE IF last > Len(text) THEN Len(text) ELSE last)

\* A formatSnippet that cuts to maxLength characters and adds the ellipsis.
formatSnippet_EllipsisAdded(snippet, maxLength) ==
    LET compact == normalizeWhitespace(snippet)
    IN  IF Len(compact) <= maxLength THEN compact
        ELSE SliceTo(compact, maxLength) \o <<".", ".", ".">>

formatSnippet(snippet, maxLength) ==
    LET compact == normalizeWhitespace(snippet)
    IN  IF Len(compact) <= maxLength THEN compact
        ELSE SliceTo(compact, maxLength - 3) \o <<".", ".", ".">>

(***************************************************************************)
(* collectReExportRecords.                                                 *)
(***************************************************************************)
\* A collectReExportRecords that names a record by the element's original
\* name (`B` of `B as C`).
ReExportRecordsOf_OriginalName(statement, relativeFile) ==
    IF statement.kind # "ExportDeclaration" THEN <<>>
    ELSE IF ~statement.moduleSpecifier THEN <<>>
    ELSE IF statement.clause # "named" THEN <<>>
    ELSE [i \in 1..Len(statement.elements) |->
            [name |-> IF statement.elements[i].propertyName # <<>>
                      THEN statement.elements[i].propertyName
                      ELSE statement.elements[i].name,
             kind |-> "reexport",
             file |-> relativeFile,
             line |-> statement.line,
             snippet |-> formatSnippet(statement.text, MAX_SNIPPET_LENGTH),
             normalizedShape |-> normalizeShape(statement.text, statement.elements[i].name),
             isReExport |-> TRUE,
             propertyCount |-> 0,
             propertyNames |-> <<>>]]

\* The records of one statement: one per element of a named export clause
\* that has a module specifier, none for any other statement.
ReExportRecordsOf(statement, relativeFile) ==
    IF statement.kind # "ExportDeclaration" THEN <<>>
    ELSE IF ~statement.moduleSpecifier THEN <<>>
    ELSE IF statement.clause # "named" THEN <<>>
    ELSE [i \in 1..Len(statement.elements) |->
            [name |-> statement.elements[i].name,
             kind |-> "reexport",
             file |-> relativeFile,
             line |-> statement.line,
             snippet |-> formatSnippet(statement.text, MAX_SNIPPET_LENGTH),
             normalizedShape |-> normalizeShape(statement.text, statement.elements[i].name),
             isReExport |-> TRUE,
             propertyCount |-> 0,
             propertyNames |-> <<>>]]

RECURSIVE ReExportLoop(_, _)
ReExportLoop(statements, relativeFile) ==
    IF statements = <<>> THEN <<>>
    ELSE ReExportRecordsOf(Head(statements), relativeFile)
             \o ReExportLoop(Tail(statements), relativeFile)

\* for (const statement of sourceFile.statements) ...
collectReExportRecords(file) == ReExportLoop(file.children, file.fileName)

(***************************************************************************)
(* collectDeclarations.                                                    *)
(***************************************************************************)
\* A visit that takes enum declarations whatever the option says.
DeclarationKindOf_AlwaysEnums(node, withEnums) ==
    IF node.kind = "InterfaceDeclaration" THEN "interface"
    ELSE IF node.kind = "TypeAliasDeclaration" THEN "type"
    ELSE IF node.kind = "EnumDeclaration" THEN "enum"
    ELSE ""

\* The kind visit gives a node, "" when it gives none.
DeclarationKindOf(node, withEnums) ==
    IF node.kind = "InterfaceDeclaration" THEN "interface"
    ELSE IF node.kind = "TypeAliasDeclaration" THEN "type"
    ELSE IF node.kind = "EnumDeclaration" /\ withEnums THEN "enum"
    ELSE ""

(***************************************************************************)
(* extractPropertyNames.                                                   *)
(***************************************************************************)
\* if (ts.isPropertySignature(member) && member.name) names.push(...)
RECURSIVE PropertySignatureNames(_)
PropertySignatureNames(members) ==
    IF members = <<>> THEN <<>>
    ELSE (IF Head(members).kind = "PropertySignature" /\ Head(members).name # <<>>
          THEN << Head(members).name >> ELSE <<>>)
             \o PropertySignatureNames(Tail(members))

\* if (member.name) names.push(...)
RECURSIVE MemberNames(_)
MemberNames(members) ==
    IF members = <<>> THEN <<>>
    ELSE (IF Head(members).name # <<>> THEN << Head(members).name >> ELSE <<>>)
             \o MemberNames(Tail(members))

\* One step of names.sort(): the name put in its place by code units.
RECURSIVE InsertName(_, _)
InsertName(sorted, name) ==
    IF sorted = <<>> THEN << name >>
    ELSE IF CompareCodeUnits(name, Head(sorted)) < 0 THEN << name >> \o sorted
    ELSE << Head(sorted) >> \o InsertName(Tail(sorted), name)

\* names.sort()
RECURSIVE SortNames(_)
SortNames(names) ==
    IF names = <<>> THEN <<>>
    ELSE InsertName(SortNames(Tail(names)), Head(names))

extractPropertyNames(node) ==
    SortNames(IF node.kind = "InterfaceDeclaration"
              THEN PropertySignatureNames(node.members)
              ELSE IF node.kind = "TypeAliasDeclaration" /\ node.typeKind = "TypeLiteral"
              THEN PropertySignatureNames(node.members)
              ELSE IF node.kind = "EnumDeclaration"
              THEN MemberNames(node.members)
              ELSE <<>>)

\* A visit that takes the fingerprint from the display snippet.
DeclarationRecordsOf_FromSnippet(node, withEnums, relativeFile) ==
    IF DeclarationKindOf(node, withEnums) # "" /\ node.name # <<>>
    THEN << [name |-> node.name,
             kind |-> DeclarationKindOf(node, withEnums),
             file |-> relativeFile,
             line |-> node.line,
             snippet |-> formatSnippet(node.text, MAX_SNIPPET_LENGTH),
             normalizedShape |->
                 normalizeShape(formatSnippet(node.text, MAX_SNIPPET_LENGTH), node.name),
             isReExport |-> FALSE,
             propertyCount |-> Len(extractPropertyNames(node)),
             propertyNames |-> extractPropertyNames(node)] >>
    ELSE <<>>

\* const propertyNames = extractPropertyNames(node, sourceFile);
\* if (kind && name) records.push({...})
DeclarationRecordsOf(node, withEnums, relativeFile) ==
    IF DeclarationKindOf(node, withEnums) # "" /\ node.name # <<>>
    THEN << [name |-> node.name,
             kind |-> DeclarationKindOf(node, withEnums),
             file |-> relativeFile,
             line |-> node.line,
             snippet |-> formatSnippet(node.text, MAX_SNIPPET_LENGTH),
             normalizedShape |-> normalizeShape(node.text, node.name),
             isReExport |-> FALSE,
             propertyCount |-> Len(extractPropertyNames(node)),
             propertyNames |-> extractPropertyNames(node)] >>
    ELSE <<>>

\* visit: the node itself, then ts.forEachChild(node, visit).
RECURSIVE visit(_, _, _)
RECURSIVE forEachChild(_, _, _)
visit(node, withEnums, relativeFile) ==
    DeclarationRecordsOf(node, withEnums, relativeFile)
        \o forEachChild(node.children, withEnums, relativeFile)

forEachChild(nodes, withEnums, relativeFile) ==
    IF nodes = <<>> THEN <<>>
    ELSE visit(Head(nodes), withEnums, relativeFile)
             \o forEachChild(Tail(nodes), withEnums, relativeFile)

\* A collectDeclarations that walks the tree before it reads the re-exports.
collectDeclarations_VisitFirst(file, withEnums) ==
    visit(file, withEnums, file.fileName) \o collectReExportRecords(file)

\* records.push(...collectReExportRecords(...)); visit(sourceFile); return records
collectDeclarations(file, withEnums) ==
    collectReExportRecords(file) \o visit(file, withEnums, file.fileName)

(***************************************************************************)
(* parseArgs. An argument is a string (a sequence of characters) and args  *)
(* a sequence of arguments, indexed from 1. null and the empty string are  *)
(* both <<>>: the code tests either with `!value`.                         *)
(***************************************************************************)
NULL == <<>>

MODES == <<<<"n","a","m","e">>, <<"s","h","a","p","e">>, <<"b","o","t","h">>>>
OUTPUT_FORMATS == <<<<"t","e","x","t">>, <<"j","s","o","n">>, <<"m","a","r","k","d","o","w","n">>>>

\* The options parseArgs starts from.
DefaultOptions ==
    [root |-> <<"s","r","c">>, mode |-> <<"b","o","t","h">>, minCount |-> 2, format |-> <<"t","e","x","t">>,
     outputFile |-> NULL, failOnDuplicates |-> FALSE, tsconfig |-> NULL,
     exclude |-> <<>>, includeEnums |-> TRUE, skipReExports |-> TRUE,
     help |-> FALSE]

\* What readStringArg and readEnumArg give: null, a value with the index of
\* the last slot read, or a thrown Error.
NoMatch == [tag |-> "null", value |-> <<>>, nextIndex |-> 0, error |-> "", flag |-> <<>>]
Found(value, nextIndex) ==
    [tag |-> "ok", value |-> value, nextIndex |-> nextIndex, error |-> "", flag |-> <<>>]
Thrown(error, flag) ==
    [tag |-> "throw", value |-> <<>>, nextIndex |-> 0, error |-> error, flag |-> flag]

\* argv[index], undefined (<<>>) past the end.
ArgAt(args, index) == IF index >= 1 /\ index <= Len(args) THEN args[index] ELSE <<>>

\* A readStringArg that takes the empty value of `--flag=` as a value.
readStringArg_EmptyAllowed(args, index, flag) ==
    LET arg == ArgAt(args, index)
        prefix == flag \o <<"=">>
    IN  IF arg = <<>> THEN NoMatch
        ELSE IF StartsWithAt(arg, 1, prefix)
        THEN Found(SubSeq(arg, Len(prefix) + 1, Len(arg)), index)
        ELSE IF arg = flag
        THEN Found(ArgAt(args, index + 1), index + 1)
        ELSE NoMatch

\* A readStringArg that, for `--flag=value`, also skips the next argument.
readStringArg_InlineSkipsNext(args, index, flag) ==
    LET arg == ArgAt(args, index)
        prefix == flag \o <<"=">>
    IN  IF arg = <<>> THEN NoMatch
        ELSE IF StartsWithAt(arg, 1, prefix)
        THEN LET value == SubSeq(arg, Len(prefix) + 1, Len(arg))
             IN  IF value = <<>> THEN Thrown("Missing value", flag)
                 ELSE Found(value, index + 1)
        ELSE IF arg = flag
        THEN LET next == ArgAt(args, index + 1)
             IN  IF next = <<>> THEN Thrown("Missing value", flag)
                 ELSE Found(next, index + 1)
        ELSE NoMatch

readStringArg(args, index, flag) ==
    LET arg == ArgAt(args, index)
        prefix == flag \o <<"=">>
    IN  IF arg = <<>> THEN NoMatch
        ELSE IF StartsWithAt(arg, 1, prefix)
        THEN LET value == SubSeq(arg, Len(prefix) + 1, Len(arg))
             IN  IF value = <<>> THEN Thrown("Missing value", flag)
                 ELSE Found(value, index)
        ELSE IF arg = flag
        THEN LET next == ArgAt(args, index + 1)
             IN  IF next = <<>> THEN Thrown("Missing value", flag)
                 ELSE Found(next, index + 1)
        ELSE NoMatch

readEnumArg(args, index, flag, allowed) ==
    LET result == readStringArg(args, index, flag)
    IN  IF result.tag # "ok" THEN result
        ELSE IF result.value \notin Range(allowed)
        THEN Thrown("Invalid value", flag)
        ELSE result

\* The value of a string of decimal digits.
DecimalDigits == <<"0", "1", "2", "3", "4", "5", "6", "7", "8", "9">>
DigitValue(c) == CHOOSE d \in 0..9 : DecimalDigits[d + 1] = c

RECURSIVE DecimalValue(_)
DecimalValue(digits) ==
    IF digits = <<>> THEN 0
    ELSE 10 * DecimalValue(SubSeq(digits, 1, Len(digits) - 1))
             + DigitValue(digits[Len(digits)])

\* Number(value) and Number.isInteger of it, for the values --min is given
\* here: a string of decimal digits is the integer it writes, a string with
\* a letter in it is NaN, which is no integer.
IsDigits(value) == value # <<>> /\ \A i \in 1..Len(value) : value[i] \in Range(DecimalDigits)
NumberIsInteger(value) == IsDigits(value)
Number(value) == IF IsDigits(value) THEN DecimalValue(value) ELSE 0

\* value.split(",")
RECURSIVE Split(_, _)
Split(value, from) ==
    IF \E i \in from..Len(value) : value[i] = ","
    THEN LET i == CHOOSE j \in from..Len(value) :
                      value[j] = "," /\ \A k \in from..(j - 1) : value[k] # ","
         IN  <<SubSeq(value, from, i - 1)>> \o Split(value, i + 1)
    ELSE <<SubSeq(value, from, Len(value))>>

\* What parseArgs gives: the options, or a thrown Error.
Parsed(opts) == [ok |-> TRUE, options |-> opts, error |-> "", flag |-> <<>>]
ParseError(result) ==
    [ok |-> FALSE, options |-> DefaultOptions, error |-> result.error, flag |-> result.flag]

\* The loop of parseArgs from argument i on.
RECURSIVE ParseLoop(_, _, _)
ParseLoop(args, i, opts) ==
    IF i > Len(args) THEN Parsed(opts)
    ELSE LET arg == args[i]
             formatResult == readEnumArg(args, i, <<"-","-","f","o","r","m","a","t">>, OUTPUT_FORMATS)
             modeResult == readEnumArg(args, i, <<"-","-","m","o","d","e">>, MODES)
             outputFirst == readStringArg(args, i, <<"-","-","o","u","t","p","u","t">>)
             outputResult == IF outputFirst.tag = "null"
                             THEN readStringArg(args, i, <<"-","-","o","u","t">>)
                             ELSE outputFirst
             rootResult == readStringArg(args, i, <<"-","-","r","o","o","t">>)
             tsconfigResult == readStringArg(args, i, <<"-","-","t","s","c","o","n","f","i","g">>)
             excludeResult == readStringArg(args, i, <<"-","-","e","x","c","l","u","d","e">>)
             minResult == readStringArg(args, i, <<"-","-","m","i","n">>)
         IN
         IF arg = <<>> THEN ParseLoop(args, i + 1, opts)
         ELSE IF arg = <<"-","-","j","s","o","n">>
         THEN ParseLoop(args, i + 1, [opts EXCEPT !.format = <<"j","s","o","n">>])
         ELSE IF arg = <<"-","-","m","a","r","k","d","o","w","n">> \/ arg = <<"-","-","m","d">>
         THEN ParseLoop(args, i + 1, [opts EXCEPT !.format = <<"m","a","r","k","d","o","w","n">>])
         ELSE IF arg = <<"-","-","h","e","l","p">> \/ arg = <<"-","h">>
         THEN ParseLoop(args, i + 1, [opts EXCEPT !.help = TRUE])
         ELSE IF arg = <<"-","-","f","a","i","l","-","o","n","-","d","u","p","l","i","c","a","t","e","s">>
         THEN ParseLoop(args, i + 1, [opts EXCEPT !.failOnDuplicates = TRUE])
         ELSE IF arg = <<"-","-","n","o","-","e","n","u","m","s">>
         THEN ParseLoop(args, i + 1, [opts EXCEPT !.includeEnums = FALSE])
         ELSE IF arg = <<"-","-","i","n","c","l","u","d","e","-","r","e","e","x","p","o","r","t","s">>
         THEN ParseLoop(args, i + 1, [opts EXCEPT !.skipReExports = FALSE])
         ELSE IF formatResult.tag = "throw" THEN ParseError(formatResult)
         ELSE IF formatResult.tag = "ok"
         THEN ParseLoop(args, formatResult.nextIndex + 1,
                        [opts EXCEPT !.format = formatResult.value])
         ELSE IF modeResult.tag = "throw" THEN ParseError(modeResult)
         ELSE IF modeResult.tag = "ok"
         THEN ParseLoop(args, modeResult.nextIndex + 1,
                        [opts EXCEPT !.mode = modeResult.value])
         ELSE IF outputResult.tag = "throw" THEN ParseError(outputResult)
         ELSE IF outputResult.tag = "ok"
         THEN ParseLoop(args, outputResult.nextIndex + 1,
                        [opts EXCEPT !.outputFile = outputResult.value])
         ELSE IF rootResult.tag = "throw" THEN ParseError(rootResult)
         ELSE IF rootResult.tag = "ok"
         THEN ParseLoop(args, rootResult.nextIndex + 1,
                        [opts EXCEPT !.root = rootResult.value])
         ELSE IF tsconfigResult.tag = "throw" THEN ParseError(tsconfigResult)
         ELSE IF tsconfigResult.tag = "ok"
         THEN ParseLoop(args, tsconfigResult.nextIndex + 1,
                        [opts EXCEPT !.tsconfig = tsconfigResult.value])
         ELSE IF excludeResult.tag = "throw" THEN ParseError(excludeResult)
         ELSE IF excludeResult.tag = "ok"
         THEN ParseLoop(args, excludeResult.nextIndex + 1,
                        [opts EXCEPT
                           !.exclude = @ \o Split(excludeResult.value, 1)])
         ELSE IF minResult.tag = "throw" THEN ParseError(minResult)
         ELSE IF minResult.tag = "ok"
         THEN IF ~NumberIsInteger(minResult.value)
                    \/ Number(minResult.value) < MinMinCount
              THEN ParseError(Thrown("Invalid value", <<"-","-","m","i","n">>))
              ELSE ParseLoop(args, minResult.nextIndex + 1,
                             [opts EXCEPT !.minCount = Number(minResult.value)])
         ELSE ParseLoop(args, i + 1, opts)

parseArgs(args) == ParseLoop(args, 1, DefaultOptions)

(***************************************************************************)
(* matchesExclude.                                                         *)
(***************************************************************************)
\* text.replace(/^\.\/+/, ""): a leading `./` with every `/` after it removed.
RECURSIVE SkipSlashes(_, _)
SkipSlashes(text, i) ==
    IF i <= Len(text) /\ text[i] = "/" THEN SkipSlashes(text, i + 1) ELSE i

StripDotSlash(text) ==
    IF StartsWithAt(text, 1, <<".", "/">>)
    THEN SubSeq(text, SkipSlashes(text, 3), Len(text))
    ELSE text

\* rel.includes(p)
Includes(text, pat) == \E i \in 1..(Len(text) + 1) : StartsWithAt(text, i, pat)

\* A matchesExclude without the substring rule.
matchesExclude_NoSubstring(relPathPosix, patterns) ==
    IF Len(patterns) = 0 THEN FALSE
    ELSE LET rel == StripDotSlash(relPathPosix)
         IN  \E k \in 1..Len(patterns) :
                LET p == StripDotSlash(Trim(patterns[k]))
                IN  IF p = <<>> THEN FALSE
                    ELSE \/ rel = p
                         \/ StartsWithAt(rel, 1, p \o <<"/">>)

matchesExclude(relPathPosix, patterns) ==
    IF Len(patterns) = 0 THEN FALSE
    ELSE LET rel == StripDotSlash(relPathPosix)
         IN  \E k \in 1..Len(patterns) :
                LET p == StripDotSlash(Trim(patterns[k]))
                IN  IF p = <<>> THEN FALSE
                    ELSE \/ rel = p
                         \/ StartsWithAt(rel, 1, p \o <<"/">>)
                         \/ Includes(rel, p)

(***************************************************************************)
(* The formatter. A report is a sequence of lines and a line a tuple of    *)
(* its literal parts and the values printed between them; a group is an    *)
(* entry [key, items] of the lists filterDuplicateGroups returns.          *)
(***************************************************************************)
MAX_PREVIEW_LENGTH == 120

\* value.padEnd(width), as the value and the width it is padded to.
PadEnd(value, width) == <<"padEnd", value, width>>

\* [...new Set(items.map((i) => i.name))]: the names, each once, first seen
\* first.
RECURSIVE DistinctNames(_, _)
DistinctNames(items, seen) ==
    IF items = <<>> THEN <<>>
    ELSE IF Head(items).name \in seen THEN DistinctNames(Tail(items), seen)
    ELSE <<Head(items).name>>
             \o DistinctNames(Tail(items), seen \cup {Head(items).name})

\* The preview of a shape group's first snippet.
Preview(snippet) ==
    IF Len(snippet) > MAX_PREVIEW_LENGTH
    THEN SubSeq(snippet, 1, MAX_PREVIEW_LENGTH - 3) \o <<".", ".", ".">>
    ELSE snippet

renderNameGroup(group) ==
    << <<"\n  ", group.key, " (", Len(group.items), " occurrences)">> >>
      \o [i \in 1..Len(group.items) |->
            <<"    ", PadEnd(group.items[i].kind, 9), "  ",
              group.items[i].file, ":", group.items[i].line>>]

renderNameReport(groups) ==
    << <<"\n-- Duplicate type names --">> >>
      \o IF Len(groups) = 0 THEN << <<"  No duplicates found">> >>
         ELSE Flatten([g \in 1..Len(groups) |-> renderNameGroup(groups[g])])

renderShapeGroup(group, shapeIndex) ==
    << <<"\n  shape#", shapeIndex, " -- names: ", DistinctNames(group.items, {}),
         " (", Len(group.items), " occurrences)">> >>
      \o [i \in 1..Len(group.items) |->
            <<"    ", PadEnd(group.items[i].kind, 9), "  ",
              PadEnd(group.items[i].name, 24), "  ",
              group.items[i].file, ":", group.items[i].line>>]
      \o IF Len(group.items) > 0
         THEN << <<"    shape:   ", Preview(group.items[1].snippet)>> >>
         ELSE <<>>

renderShapeReport(groups) ==
    << <<"\n-- Duplicate type shapes --">> >>
      \o IF Len(groups) = 0 THEN << <<"  No duplicates found">> >>
         ELSE Flatten([g \in 1..Len(groups) |-> renderShapeGroup(groups[g], g)])

WantsNames(mode) == mode = <<"n","a","m","e">> \/ mode = <<"b","o","t","h">>
WantsShapes(mode) == mode = <<"s","h","a","p","e">> \/ mode = <<"b","o","t","h">>

renderTextReport(names, shapes, meta) ==
    << <<"\n-- Summary --">>,
       <<"  Files scanned:          ", meta.filesScanned>>,
       <<"  Declarations found:     ", meta.declarationsScanned>>,
       <<"  Source:                 ", meta.fileSource>> >>
      \o (IF WantsNames(meta.mode)
          THEN << <<"  Duplicate name groups:  ", Len(names)>> >> ELSE <<>>)
      \o (IF WantsShapes(meta.mode)
          THEN << <<"  Duplicate shape groups: ", Len(shapes)>> >> ELSE <<>>)
      \o << <<"">> >>
      \o (IF WantsNames(meta.mode) THEN renderNameReport(names) ELSE <<>>)
      \o (IF WantsShapes(meta.mode) THEN renderShapeReport(shapes) ELSE <<>>)

\* items.map((item) => ({file, line, kind, name, snippet, isReExport}))
mapDeclarations(items) ==
    [i \in 1..Len(items) |->
        [file |-> items[i].file, line |-> items[i].line, kind |-> items[i].kind,
         name |-> items[i].name, snippet |-> items[i].snippet,
         isReExport |-> items[i].isReExport]]

\* The errors field of the payload: the list, or undefined.
Defined(value) == [defined |-> TRUE, value |-> value]
UNDEFINED == [defined |-> FALSE, value |-> <<>>]

\* A buildJsonPayload that reports both lists of groups whatever the mode.
buildJsonPayload_AnyMode(names, shapes, meta, mode) ==
    [root |-> meta.root,
     mode |-> mode,
     fileSource |-> meta.fileSource,
     filesScanned |-> meta.filesScanned,
     declarationsScanned |-> meta.declarationsScanned,
     duplicateNameGroups |->
        [g \in 1..Len(names) |->
            [name |-> names[g].key, count |-> Len(names[g].items),
             declarations |-> mapDeclarations(names[g].items)]],
     duplicateShapeGroups |->
        [g \in 1..Len(shapes) |->
            [shape |-> shapes[g].key, count |-> Len(shapes[g].items),
             declarations |-> mapDeclarations(shapes[g].items)]],
     errors |-> IF Len(meta.errors) > 0 THEN Defined(meta.errors) ELSE UNDEFINED]

buildJsonPayload(names, shapes, meta, mode) ==
    [root |-> meta.root,
     mode |-> mode,
     fileSource |-> meta.fileSource,
     filesScanned |-> meta.filesScanned,
     declarationsScanned |-> meta.declarationsScanned,
     duplicateNameGroups |->
        IF mode = <<"s","h","a","p","e">> THEN <<>>
        ELSE [g \in 1..Len(names) |->
                [name |-> names[g].key, count |-> Len(names[g].items),
                 declarations |-> mapDeclarations(names[g].items)]],
     duplicateShapeGroups |->
        IF mode = <<"n","a","m","e">> THEN <<>>
        ELSE [g \in 1..Len(shapes) |->
                [shape |-> shapes[g].key, count |-> Len(shapes[g].items),
                 declarations |-> mapDeclarations(shapes[g].items)]],
     errors |-> IF Len(meta.errors) > 0 THEN Defined(meta.errors) ELSE UNDEFINED]

\* `${JSON.stringify(payload, null, 2)}\n`: the JSON document of the payload,
\* in which a field that is undefined does not appear.
JsonDocument(payload) ==
    [json |->
        [root |-> payload.root,
         mode |-> payload.mode,
         fileSource |-> payload.fileSource,
         filesScanned |-> payload.filesScanned,
         declarationsScanned |-> payload.declarationsScanned,
         duplicateNameGroups |-> payload.duplicateNameGroups,
         duplicateShapeGroups |-> payload.duplicateShapeGroups],
     errors |-> IF payload.errors.defined THEN payload.errors.value ELSE <<>>,
     hasErrors |-> payload.errors.defined]

mdNameGroup(group) ==
    << <<"### ", group.key, " (", Len(group.items), " occurrences)">>,
       <<"">>,
       <<"| Kind | File | Line |">>,
       <<"| --- | --- | --- |">> >>
      \o [i \in 1..Len(group.items) |->
            <<"| ", group.items[i].kind, " | ", group.items[i].file, " | ",
              group.items[i].line, " |">>]
      \o << <<"">> >>

mdShapeGroup(group, shapeIndex) ==
    << <<"### Shape #", shapeIndex, " -- ", DistinctNames(group.items, {}),
         " (", Len(group.items), " occurrences)">>,
       <<"">>,
       <<"| Kind | Name | File | Line |">>,
       <<"| --- | --- | --- | --- |">> >>
      \o [i \in 1..Len(group.items) |->
            <<"| ", group.items[i].kind, " | ", group.items[i].name, " | ",
              group.items[i].file, " | ", group.items[i].line, " |">>]
      \o << <<"">> >>
      \o IF Len(group.items) > 0
         THEN << <<"<details>">>, <<"<summary>Shape preview</summary>">>, <<"">>,
                 <<"(fence)typescript">>, <<group.items[1].snippet>>, <<"(fence)">>,
                 <<"</details>">>, <<"">> >>
         ELSE <<>>

renderMarkdown(names, shapes, meta) ==
    (IF meta.duplicateCount > 0
     THEN << <<"# Duplicate Types Report (found)">>, <<"">>,
             <<"> **", meta.duplicateCount, " duplicate group(s) found** across ",
               meta.filesScanned, " files (", meta.declarationsScanned,
               " declarations)">> >>
     ELSE << <<"# Duplicate Types Report (none)">>, <<"">>,
             <<"> **No duplicates found** across ",
               meta.filesScanned, " files (", meta.declarationsScanned,
               " declarations)">> >>)
      \o << <<"">>,
            <<"| Metric | Value |">>,
            <<"| --- | --- |">>,
            <<"| Files scanned | ", meta.filesScanned, " |">>,
            <<"| Declarations found | ", meta.declarationsScanned, " |">>,
            <<"| Source | ", meta.fileSource, " |">> >>
      \o (IF WantsNames(meta.mode)
          THEN << <<"| Duplicate name groups | ", Len(names), " |">> >> ELSE <<>>)
      \o (IF WantsShapes(meta.mode)
          THEN << <<"| Duplicate shape groups | ", Len(shapes), " |">> >> ELSE <<>>)
      \o << <<"">> >>
      \o (IF WantsNames(meta.mode)
          THEN << <<"## Duplicate Type Names">>, <<"">> >>
                 \o IF Len(names) = 0
                    THEN << <<"No duplicate names found.">>, <<"">> >>
                    ELSE Flatten([g \in 1..Len(names) |-> mdNameGroup(names[g])])
          ELSE <<>>)
      \o (IF WantsShapes(meta.mode)
          THEN << <<"## Duplicate Type Shapes">>, <<"">> >>
                 \o IF Len(shapes) = 0
                    THEN << <<"No duplicate shapes found.">>, <<"">> >>
                    ELSE Flatten([g \in 1..Len(shapes) |-> mdShapeGroup(shapes[g], g)])
          ELSE <<>>)
      \o << <<"---">>, <<"Generated by typehunt">>,
            <<"">> >>

(***************************************************************************)
(* run(): the files on disk, the arguments, and the steps of run() and of  *)
(* collectAllDeclarations between their awaits.                            *)
(***************************************************************************)
MAX_DISPLAYED_ERRORS == 5
FILE_READ_CONCURRENCY == 50

\* process.cwd()
CWD == <<"/","w">>

\* toPosix(path.relative(process.cwd(), file)) of a file below the working
\* directory, on a system whose path separator is `/`.
RelativeToCwd(file) ==
    IF StartsWithAt(file, 1, CWD \o <<"/">>)
    THEN SubSeq(file, Len(CWD) + 2, Len(file))
    ELSE file

\* A file on disk: its path, whether fs.readFile can read it, and the
\* statements of its text.
DiskFile(path, readable, statements) ==
    [path |-> path, readable |-> readable, statements |-> statements]

\* a.ts: interface User { id: string; name: string; }
\* b.ts: type User = { id: string; name: string; }
\* r.ts: export { User } from "./a";
DiskContents ==
    { [path |-> <<"/","w","/","a",".","t","s">>,
       statements |->
          << WithText(Node("InterfaceDeclaration", <<"U","s","e","r">>, FALSE, "none", <<>>, <<>>),
                      <<"i","n","t","e","r","f","a","c","e"," ","U","s","e","r"," ","{"," ","i","d",":"," ","s","t","r","i","n","g",";"," ","n","a","m","e",":"," ","s","t","r","i","n","g",";"," ","}">>) >>],
      [path |-> <<"/","w","/","b",".","t","s">>,
       statements |->
          << WithText(Node("TypeAliasDeclaration", <<"U","s","e","r">>, FALSE, "none", <<>>, <<>>),
                      <<"t","y","p","e"," ","U","s","e","r"," ","="," ","{"," ","i","d",":"," ","s","t","r","i","n","g",";"," ","n","a","m","e",":"," ","s","t","r","i","n","g",";"," ","}">>) >>],
      [path |-> <<"/","w","/","r",".","t","s">>,
       statements |->
          << WithText(Node("ExportDeclaration", <<>>, TRUE, "named",
                           <<ExportElement(<<"U","s","e","r">>, <<>>)>>, <<>>),
                      <<"e","x","p","o","r","t"," ","{"," ","U","s","e","r"," ","}"," ","f","r","o","m"," ","\"",".","/","a","\"",";">>) >>] }

\* The lists of files a scan can return: distinct files, each readable or not.
ScanResults ==
    UNION { { list \in [1..n -> { DiskFile(c.path, readable, c.statements) :
                                    c \in DiskContents, readable \in BOOLEAN }] :
                \A i, j \in 1..n : list[i].path = list[j].path => i = j } :
            n \in 0..MaxFiles }

\* The arguments the command lines are made of.
ArgPool ==
    { <<"-","-","j","s","o","n">>, <<"-","-","f","a","i","l","-","o","n","-","d","u","p","l","i","c","a","t","e","s">>, <<"-","-","h","e","l","p">>,
      <<"-","-","m","o","d","e","=","n","a","m","e">>, <<"-","-","m","o","d","e">>, <<"s","h","a","p","e">>, <<"-","-","m","o","d","e","=","b","o","g","u","s">>,
      <<"-","-","f","o","r","m","a","t","=","x","m","l">>, <<"-","-","o","u","t","p","u","t","=","o">>, <<"-","-","o","u","t","p","u","t">>,
      <<"-","-","m","i","n","=","3">>, <<"-","-","m","i","n","=","1">>, <<"-","-","m","i","n","=","x">>, <<"-","-","m","i","n">>, <<"-","-","m","i","n","=">>, <<>> }

CommandLines == UNION { [1..n -> ArgPool] : n \in 0..MaxArgs }

\* Command lines that run over every scan result.
ReportCommandLines ==
    { <<>>,
      <<<<"-","-","i","n","c","l","u","d","e","-","r","e","e","x","p","o","r","t","s">>>>,
      <<<<"-","-","n","o","-","e","n","u","m","s">>, <<"-","-","m","i","n","=","3">>>>,
      <<<<"-","-","f","a","i","l","-","o","n","-","d","u","p","l","i","c","a","t","e","s">>>>,
      <<<<"-","-","f","a","i","l","-","o","n","-","d","u","p","l","i","c","a","t","e","s">>, <<"-","-","m","o","d","e","=","n","a","m","e">>>>,
      <<<<"-","-","f","a","i","l","-","o","n","-","d","u","p","l","i","c","a","t","e","s">>, <<"-","-","m","o","d","e">>, <<"s","h","a","p","e">>>>,
      <<<<"-","-","f","a","i","l","-","o","n","-","d","u","p","l","i","c","a","t","e","s">>, <<"-","-","m","o","d","e","=","s","h","a","p","e">>, <<"-","-","i","n","c","l","u","d","e","-","r","e","e","x","p","o","r","t","s">>>>,
      <<<<"-","-","j","s","o","n">>>>,
      <<<<"-","-","j","s","o","n">>, <<"-","-","m","o","d","e","=","n","a","m","e">>>>,
      <<<<"-","-","f","o","r","m","a","t">>, <<"j","s","o","n">>, <<"-","-","m","o","d","e","=","s","h","a","p","e">>, <<"-","-","i","n","c","l","u","d","e","-","r","e","e","x","p","o","r","t","s">>>>,
      <<<<"-","-","j","s","o","n">>, <<"-","-","o","u","t","p","u","t","=","o">>>>,
      <<<<"-","-","m","d">>, <<"-","-","o","u","t">>, <<"o">>>>,
      <<<<"-","-","f","o","r","m","a","t","=","m","a","r","k","d","o","w","n">>>>,
      <<<<"-","-","o","u","t","p","u","t","=","o">>>>,
      <<<<"-","-","t","s","c","o","n","f","i","g","=","t">>, <<"-","-","e","x","c","l","u","d","e","=","a",".","t","s",",","x">>>> }

\* What one file of a batch resolves to.
ReadResult(index, file, withEnums) ==
    IF file.readable
    THEN [index |-> index, ok |-> TRUE, file |-> file.path,
          records |-> collectDeclarations(
                          SourceFileNamed(RelativeToCwd(file.path), file.statements),
                          withEnums),
          error |-> ""]
    ELSE [index |-> index, ok |-> FALSE, file |-> RelativeToCwd(file.path),
          records |-> <<>>,
          error |-> "ENOENT"]

\* A slice that takes every file that is left, whatever the batch size.
SliceEnd_WholeList(position, size, total) == total

\* files.slice(offset, offset + FILE_READ_CONCURRENCY): the place of the last
\* file of the batch.
SliceEnd(position, size, total) ==
    IF position + size < total THEN position + size ELSE total

\* A Promise.all that resolves with the values in the order they came.
PromiseAll_AsSettled(outcomes, from, to) == outcomes

\* await Promise.all(batch.map(...)): the values of the promises from..to, in
\* the order of the promises, whatever the order they settled in.
PromiseAll(outcomes, from, to) ==
    [k \in 1..(to - from + 1) |->
        CHOOSE r \in Range(outcomes) : r.index = from + k - 1]

\* A loop that returns after its first batch.
PhaseAfterBatch_ReturnsEarly(position, total) == "collected"

\* offset < files.length: the loop goes on, or collectAllDeclarations returns.
PhaseAfterBatch(position, total) ==
    IF position < total THEN "collecting" ELSE "collected"

\* for (const result of results): the records and the errors of the results
\* from..to of a batch, in the order of the results.
\* A loop over the results that stops at the first file that failed.
RECURSIVE BatchRecords_AbortOnError(_, _, _)
BatchRecords_AbortOnError(results, from, to) ==
    IF from > to THEN <<>>
    ELSE LET result == results[from]
         IN  IF result.ok
             THEN result.records \o BatchRecords_AbortOnError(results, from + 1, to)
             ELSE <<>>

RECURSIVE BatchRecords(_, _, _)
BatchRecords(results, from, to) ==
    IF from > to THEN <<>>
    ELSE LET result == results[from]
         IN  (IF result.ok THEN result.records ELSE <<>>)
                 \o BatchRecords(results, from + 1, to)

RECURSIVE BatchErrors(_, _, _)
BatchErrors(results, from, to) ==
    IF from > to THEN <<>>
    ELSE LET result == results[from]
         IN  (IF result.ok THEN <<>>
              ELSE <<[file |-> result.file, error |-> result.error]>>)
                 \o BatchErrors(results, from + 1, to)

\* A run() that groups every record, whatever options.skipReExports says.
FilterReExports_KeepAll(list, skipReExports) == list

\* options.skipReExports ? declarations.filter((d) => !d.isReExport) : declarations
FilterReExports(list, skipReExports) ==
    IF skipReExports THEN SelectSeq(list, LAMBDA d : ~d.isReExport) ELSE list

\* A duplicate count that counts both lists of groups, whatever the mode.
DuplicateCount_AnyMode(names, shapes, mode) == Len(names) + Len(shapes)

\* const duplicateCount = ...
DuplicateCount(names, shapes, mode) ==
    (IF WantsNames(mode) THEN Len(names) ELSE 0)
      + (IF WantsShapes(mode) THEN Len(shapes) ELSE 0)

\* The lines run() prints on stderr about the files it could not read.
ErrorLines(errorList) ==
    << <<"Skipped ", Len(errorList), " file(s) with read errors:">> >>
      \o [i \in 1..(IF Len(errorList) < MAX_DISPLAYED_ERRORS
                    THEN Len(errorList) ELSE MAX_DISPLAYED_ERRORS) |->
            <<"  ", errorList[i].file, ": ", errorList[i].error>>]
      \o IF Len(errorList) > MAX_DISPLAYED_ERRORS
         THEN << <<"  ... and ", Len(errorList) - MAX_DISPLAYED_ERRORS, " more">> >>
         ELSE <<>>

\* writeOutputFile(outputFile, content, label): the file written and the
\* line printed on stderr.
FileWritten(outputFile, content, label) ==
    [path |-> outputFile, content |-> content, label |-> label]
SavedLine(outputFile, label) == <<"Saved ", label, " report to ", outputFile>>

(***************************************************************************)
(* The grouping pass of run(), applied to record lists drawn from          *)
(* RecordLists.                                                            *)
(***************************************************************************)
GroupIdle ==
    /\ effectiveDeclarations = <<>>
    /\ minCount = MinMinCount
    /\ nameMap = <<>>
    /\ shapeMap = <<>>
    /\ nameGroups = <<>>
    /\ shapeGroups = <<>>
    /\ groupRuns = 0
    /\ inputAtStart = <<>>
    /\ prevNameGroups = <<>>
    /\ prevShapeGroups = <<>>

NormIdle ==
    /\ rawSnippet = <<>>
    /\ declName = <<>>
    /\ plainSnippet = <<>>
    /\ declForm = "none"
    /\ declMembers = <<>>
    /\ compactText = <<>>
    /\ namedText = <<>>
    /\ normalizedShape = <<>>
    /\ normDone = FALSE

CollectIdle ==
    /\ sourceFile = createSourceFile(<<>>)
    /\ includeEnums = TRUE
    /\ records = <<>>
    /\ collectDone = FALSE

RunIdle ==
    /\ argv = <<>>
    /\ rootIsDirectory = TRUE
    /\ scanResult = <<>>
    /\ phase = "idle"
    /\ options = DefaultOptions
    /\ files = <<>>
    /\ fileSource = <<>>
    /\ offset = 0
    /\ batch = {}
    /\ inFlight = {}
    /\ settled = <<>>
    /\ declarations = <<>>
    /\ errors = <<>>
    /\ stdout = <<>>
    /\ stderr = <<>>
    /\ written = <<>>
    /\ exitCode = -1
    /\ readsStarted = 0
    /\ concurrency = FILE_READ_CONCURRENCY

UtilIdle ==
    /\ callee = "none"
    /\ callArgs = <<>>
    /\ returned = <<>>
    /\ callDone = FALSE

GroupInit ==
    /\ \E pairs \in RecordLists : effectiveDeclarations = MakeRecords(pairs)
    /\ minCount \in MinMinCount..MaxMinCount
    /\ nameMap = <<>>
    /\ shapeMap = <<>>
    /\ nameGroups = <<>>
    /\ shapeGroups = <<>>
    /\ groupRuns = 0
    /\ inputAtStart = effectiveDeclarations
    /\ prevNameGroups = <<>>
    /\ prevShapeGroups = <<>>
    /\ NormIdle
    /\ CollectIdle
    /\ RunIdle
    /\ UtilIdle

GroupPass ==
    /\ groupRuns < MaxGroupRuns
    /\ nameMap' = groupBy(effectiveDeclarations, "name")
    /\ shapeMap' = groupBy(ItemsAfterGroupBy(effectiveDeclarations), "normalizedShape")
    /\ nameGroups' = filterDuplicateGroups(nameMap', minCount)
    /\ shapeGroups' = filterDuplicateGroups(shapeMap', minCount)
    /\ effectiveDeclarations' =
           ItemsAfterGroupBy(ItemsAfterGroupBy(effectiveDeclarations))
    /\ prevNameGroups' = nameGroups
    /\ prevShapeGroups' = shapeGroups
    /\ groupRuns' = groupRuns + 1
    /\ UNCHANGED <<minCount, inputAtStart>>
    /\ UNCHANGED <<nvars, cvars, rvars, uvars>>

GroupNext == GroupPass

SpecGroup == GroupInit /\ [][GroupNext]_vars

(***************************************************************************)
(* normalizeShape, applied to declarations drawn from the pools above.     *)
(***************************************************************************)
\* The declarations: an interface or a type alias with members, an enum or a
\* const enum without; as written, or with a comment or a line break in the
\* body, or with a space before the trailing semicolon.
NormInit ==
    /\ \E form \in {"interface", "type", "enum", "const enum"},
          exported \in BOOLEAN,
          name \in DeclNames, members \in MemberLists, semicolon \in BOOLEAN :
          /\ form \in {"enum", "const enum"} => members = <<>>
          /\ declForm = form
          /\ declName = name
          /\ declMembers = members
          /\ plainSnippet =
                 SnippetOf(form, exported, name, members, semicolon, <<>>, 0)
          /\ \/ rawSnippet = plainSnippet
             \/ /\ ~exported
                /\ ~semicolon
                /\ \E decoration \in Decorations,
                      gap \in 1..(Len(BodyPieces(members)) - 1) :
                      rawSnippet = SnippetOf(form, exported, name, members,
                                             semicolon, decoration, gap)
             \/ /\ ~exported
                /\ semicolon
                /\ rawSnippet =
                       SnippetOf(form, exported, name, members, FALSE, <<>>, 0)
                           \o <<" ", ";">>
    /\ compactText = <<>>
    /\ namedText = <<>>
    /\ normalizedShape = <<>>
    /\ normDone = FALSE
    /\ GroupIdle
    /\ CollectIdle
    /\ RunIdle
    /\ UtilIdle

\* One call of normalizeShape(rawSnippet, declName).
Normalize ==
    /\ ~normDone
    /\ compactText' = normalizeWhitespace(rawSnippet)
    /\ namedText' = ReplaceName(compactText', declName)
    /\ normalizedShape' = RewriteNamed(namedText')
    /\ normDone' = TRUE
    /\ UNCHANGED <<rawSnippet, declName, plainSnippet, declForm, declMembers>>
    /\ UNCHANGED <<gvars, cvars, rvars, uvars>>

NormNext == Normalize

SpecNorm == NormInit /\ [][NormNext]_vars

(***************************************************************************)
(* collectDeclarations, applied to the files of StatementLists.            *)
(***************************************************************************)
CollectInit ==
    /\ \E statements \in StatementLists \cup DetailLists :
          sourceFile = createSourceFile(statements)
    /\ includeEnums \in BOOLEAN
    /\ records = <<>>
    /\ collectDone = FALSE
    /\ GroupIdle
    /\ NormIdle
    /\ RunIdle
    /\ UtilIdle

\* One call of collectDeclarations(file, sourceText, {includeEnums}).
Collect ==
    /\ ~collectDone
    /\ records' = collectDeclarations(sourceFile, includeEnums)
    /\ collectDone' = TRUE
    /\ UNCHANGED <<sourceFile, includeEnums>>
    /\ UNCHANGED <<gvars, nvars, rvars, uvars>>

CollectNext == Collect

SpecCollect == CollectInit /\ [][CollectNext]_vars

(***************************************************************************)
(* run().                                                                  *)
(***************************************************************************)
RunInit ==
    /\ \/ /\ argv \in CommandLines
          /\ rootIsDirectory = TRUE
          /\ scanResult =
                 << DiskFile(<<"/","w","/","a",".","t","s">>, TRUE,
                             (CHOOSE c \in DiskContents : c.path = <<"/","w","/","a",".","t","s">>).statements),
                    DiskFile(<<"/","w","/","b",".","t","s">>, TRUE,
                             (CHOOSE c \in DiskContents : c.path = <<"/","w","/","b",".","t","s">>).statements) >>
       \/ /\ argv \in ReportCommandLines
          /\ rootIsDirectory = TRUE
          /\ scanResult \in ScanResults
       \/ /\ argv \in {<<>>, <<<<"-","-","j","s","o","n">>>>}
          /\ rootIsDirectory = FALSE
          /\ scanResult = <<>>
    /\ phase = "start"
    /\ options = DefaultOptions
    /\ files = <<>>
    /\ fileSource = <<>>
    /\ offset = 0
    /\ batch = {}
    /\ inFlight = {}
    /\ settled = <<>>
    /\ declarations = <<>>
    /\ errors = <<>>
    /\ stdout = <<>>
    /\ stderr = <<>>
    /\ written = <<>>
    /\ exitCode = -1
    /\ readsStarted = 0
    /\ concurrency = FILE_READ_CONCURRENCY
    /\ GroupIdle
    /\ NormIdle
    /\ CollectIdle
    /\ UtilIdle

\* const options = parseArgs(process.argv.slice(2)); if (options.help) ...
\* A thrown Error ends the run in the catch of run(): exit code 1.
ParseArgs ==
    /\ phase = "start"
    /\ LET result == parseArgs(argv)
       IN  IF ~result.ok
           THEN /\ phase' = "failed"
                /\ stderr' = Append(stderr, <<"typehunt failed: ", result.error, result.flag>>)
                /\ exitCode' = 1
                /\ UNCHANGED <<options, stdout>>
           ELSE IF result.options.help
           THEN /\ phase' = "done"
                /\ stdout' = Append(stdout, [kind |-> "help", body |-> <<>>])
                /\ exitCode' = 0
                /\ options' = result.options
                /\ UNCHANGED stderr
           ELSE /\ phase' = "parsed"
                /\ options' = result.options
                /\ UNCHANGED <<stdout, stderr, exitCode>>
    /\ UNCHANGED <<argv, rootIsDirectory, scanResult, files, fileSource, offset,
                   batch, inFlight, settled, declarations, errors, written,
                   readsStarted,
                   concurrency>>
    /\ UNCHANGED <<gvars, nvars, cvars, uvars>>

\* File discovery. scanResult is what the scanner returns for the root or the
\* tsconfig.
Discover ==
    /\ phase = "parsed"
    /\ LET found ==
               IF options.tsconfig # NULL
               THEN IF Len(options.exclude) > 0
                    THEN SelectSeq(scanResult,
                                   LAMBDA f : ~matchesExclude(RelativeToCwd(f.path),
                                                              options.exclude))
                    ELSE scanResult
               ELSE scanResult
           rootMissing == options.tsconfig = NULL /\ ~rootIsDirectory
       IN  IF rootMissing
           THEN /\ phase' = "failed"
                /\ stderr' = Append(stderr, <<"typehunt failed: ",
                                              "Root path does not exist or is not a directory",
                                              options.root>>)
                /\ exitCode' = 1
                /\ UNCHANGED <<files, fileSource, stdout>>
           ELSE /\ files' = found
                /\ fileSource' = IF options.tsconfig # NULL
                                 THEN <<"tsconfig", options.tsconfig>>
                                 ELSE <<"directory walk", options.root>>
                /\ IF Len(found) = 0
                   THEN /\ phase' = "done"
                        /\ exitCode' = 0
                        /\ stdout' = IF options.format = <<"t","e","x","t">>
                                     THEN Append(stdout,
                                                 [kind |-> "message",
                                                  body |-> <<"No TypeScript files found to scan.">>])
                                     ELSE stdout
                   ELSE /\ phase' = "collecting"
                        /\ UNCHANGED <<exitCode, stdout>>
                /\ UNCHANGED stderr
    /\ UNCHANGED <<argv, rootIsDirectory, scanResult, options, offset, batch,
                   inFlight, settled, declarations, errors, written, readsStarted,
                   concurrency>>
    /\ UNCHANGED <<gvars, nvars, cvars, uvars>>

\* collectAllDeclarations: batch.map(async (file) => ...) starts the read of
\* every file of the next batch.
StartBatch ==
    /\ phase = "collecting"
    /\ batch = {}
    /\ offset < Len(files)
    /\ LET last == SliceEnd(offset, concurrency, Len(files))
       IN  /\ batch' = (offset + 1)..last
           /\ inFlight' = (offset + 1)..last
           /\ readsStarted' = readsStarted + (last - offset)
    /\ settled' = <<>>
    /\ UNCHANGED <<argv, rootIsDirectory, scanResult, phase, options, files,
                   fileSource, offset, declarations, errors, stdout, stderr,
                   written, exitCode,
                   concurrency>>
    /\ UNCHANGED <<gvars, nvars, cvars, uvars>>

\* One read of the batch settles: the file's records, or its error.
CompleteRead ==
    /\ phase = "collecting"
    /\ \E i \in inFlight :
          /\ inFlight' = inFlight \ {i}
          /\ settled' = Append(settled, ReadResult(i, files[i], options.includeEnums))
    /\ UNCHANGED <<argv, rootIsDirectory, scanResult, phase, options, files,
                   fileSource, offset, batch, declarations, errors, stdout,
                   stderr, written, exitCode, readsStarted,
                   concurrency>>
    /\ UNCHANGED <<gvars, nvars, cvars, uvars>>

\* Promise.all has resolved: the results are pushed in the order of the
\* batch, and the loop goes on to the next batch or returns.
FinishBatch ==
    /\ phase = "collecting"
    /\ batch # {}
    /\ inFlight = {}
    /\ LET results == PromiseAll(settled, offset + 1, offset + Cardinality(batch))
       IN  /\ declarations' = declarations \o BatchRecords(results, 1, Len(results))
           /\ errors' = errors \o BatchErrors(results, 1, Len(results))
    /\ offset' = offset + concurrency
    /\ batch' = {}
    /\ phase' = PhaseAfterBatch(offset', Len(files))
    /\ UNCHANGED <<argv, rootIsDirectory, scanResult, options, files, fileSource,
                   inFlight, settled, stdout, stderr, written, exitCode, readsStarted,
                   concurrency>>
    /\ UNCHANGED <<gvars, nvars, cvars, uvars>>

\* The rest of run(): the re-export filter, the groups, the report and the
\* exit code.
Report ==
    /\ phase = "collected"
    /\ LET effective == FilterReExports(declarations, options.skipReExports)
           byName == groupBy(effective, "name")
           byShape == groupBy(effective, "normalizedShape")
           names == filterDuplicateGroups(byName, options.minCount)
           shapes == filterDuplicateGroups(byShape, options.minCount)
           duplicateCount == DuplicateCount(names, shapes, options.mode)
           meta == [filesScanned |-> Len(files),
                    declarationsScanned |-> Len(effective),
                    mode |-> options.mode,
                    fileSource |-> fileSource,
                    duplicateCount |-> duplicateCount,
                    root |-> IF options.tsconfig # NULL
                             THEN options.tsconfig ELSE options.root,
                    errors |-> errors]
           renderedJson ==
               [kind |-> "json",
                body |-> JsonDocument(buildJsonPayload(names, shapes, meta, options.mode))]
           md == [kind |-> "markdown", body |-> renderMarkdown(names, shapes, meta)]
           text == [kind |-> "text", body |-> renderTextReport(names, shapes, meta)]
           toFile == options.outputFile # NULL
           failing == options.failOnDuplicates /\ duplicateCount > 0
       IN  /\ effectiveDeclarations' = effective
           /\ nameMap' = byName
           /\ shapeMap' = byShape
           /\ nameGroups' = names
           /\ shapeGroups' = shapes
           /\ stdout' =
                  stdout
                    \o (IF options.format = <<"j","s","o","n">> THEN <<renderedJson>>
                        ELSE IF options.format = <<"m","a","r","k","d","o","w","n">> THEN <<md>>
                        ELSE <<text>>)
                    \o (IF failing /\ options.format = <<"t","e","x","t">>
                        THEN <<[kind |-> "message",
                                body |-> <<"Found ", duplicateCount,
                                           " duplicate group(s). Exiting with code 1.">>]>>
                        ELSE <<>>)
           /\ written' =
                  IF ~toFile THEN written
                  ELSE IF options.format = <<"j","s","o","n">>
                  THEN Append(written, FileWritten(options.outputFile, renderedJson, "JSON"))
                  ELSE IF options.format = <<"m","a","r","k","d","o","w","n">>
                  THEN Append(written, FileWritten(options.outputFile, md, "Markdown"))
                  ELSE Append(written, FileWritten(options.outputFile, renderedJson, "JSON"))
           /\ stderr' =
                  stderr
                    \o (IF Len(errors) > 0 /\ options.format = <<"t","e","x","t">>
                        THEN ErrorLines(errors) ELSE <<>>)
                    \o (IF ~toFile THEN <<>>
                        ELSE IF options.format = <<"m","a","r","k","d","o","w","n">>
                        THEN <<SavedLine(options.outputFile, "Markdown")>>
                        ELSE <<SavedLine(options.outputFile, "JSON")>>)
           /\ exitCode' = IF failing THEN 1 ELSE 0
    /\ phase' = "done"
    /\ UNCHANGED <<minCount, groupRuns, inputAtStart, prevNameGroups, prevShapeGroups>>
    /\ UNCHANGED <<argv, rootIsDirectory, scanResult, options, files, fileSource,
                   offset, batch, inFlight, settled, declarations, errors,
                   readsStarted,
                   concurrency>>
    /\ UNCHANGED <<nvars, cvars, uvars>>

RunNext ==
    \/ ParseArgs
    \/ Discover
    \/ StartBatch
    \/ CompleteRead
    \/ FinishBatch
    \/ Report

SpecRun == RunInit /\ [][RunNext]_vars

(***************************************************************************)
(* run() over more files than one batch holds: the loop of                 *)
(* collectAllDeclarations with a batch size of 1..MaxConcurrency in the    *)
(* place of FILE_READ_CONCURRENCY, over up to MaxBatchFiles files.         *)
(***************************************************************************)
\* The lists of files a scan can return: distinct files, each readable or not.
BatchScanResults ==
    UNION { { list \in [1..n -> { DiskFile(c.path, readable, c.statements) :
                                    c \in DiskContents, readable \in BOOLEAN }] :
                \A i, j \in 1..n : list[i].path = list[j].path => i = j } :
            n \in 0..MaxBatchFiles }

BatchInit ==
    /\ argv \in { <<>>, << <<"-","-","i","n","c","l","u","d","e","-","r","e","e","x","p","o","r","t","s">> >> }
    /\ rootIsDirectory = TRUE
    /\ scanResult \in BatchScanResults
    /\ concurrency \in 1..MaxConcurrency
    /\ phase = "start"
    /\ options = DefaultOptions
    /\ files = <<>>
    /\ fileSource = <<>>
    /\ offset = 0
    /\ batch = {}
    /\ inFlight = {}
    /\ settled = <<>>
    /\ declarations = <<>>
    /\ errors = <<>>
    /\ stdout = <<>>
    /\ stderr = <<>>
    /\ written = <<>>
    /\ exitCode = -1
    /\ readsStarted = 0
    /\ GroupIdle
    /\ NormIdle
    /\ CollectIdle
    /\ UtilIdle

SpecBatch == BatchInit /\ [][RunNext]_vars

(***************************************************************************)
(* Calls of matchesExclude, parseArgs and formatSnippet, one call at a     *)
(* time, on arguments drawn from the pools below.                          *)
(***************************************************************************)
\* Relative paths: plain, with a leading ./ and with a leading .//
RelPathPool ==
    { <<"a">>, <<"a","b">>, <<"a","/","b">>, <<"b","/","a">>, <<".","/","a">>, <<".","/","/","a">>, <<>> }

\* Exclude patterns: blank ones, ones with a leading ./ or .//, ones with
\* whitespace around them, one with a trailing slash.
ExcludePatternPool ==
    { <<>>, <<" ">>, <<"a">>, <<" ","a"," ">>, <<".","/","a">>, <<".","/","/","a">>, <<"a","/">>, <<"b">>, <<".","/">> }

ExcludeLists == UNION { [1..n -> ExcludePatternPool] : n \in 0..MaxPatterns }

\* The flags of parseArgs that take a value, and values each of them allows:
\* for the flags that take any string, one that reads like a flag.
ValueFlagPool ==
    { <<"-","-","r","o","o","t">>, <<"-","-","t","s","c","o","n","f","i","g">>, <<"-","-","o","u","t","p","u","t">>, <<"-","-","o","u","t">>, <<"-","-","m","o","d","e">>, <<"-","-","f","o","r","m","a","t">>,
      <<"-","-","m","i","n">>, <<"-","-","e","x","c","l","u","d","e">> }

ValuePool(flag) ==
    IF flag = <<"-","-","m","o","d","e">> THEN { <<"n","a","m","e">>, <<"s","h","a","p","e">> }
    ELSE IF flag = <<"-","-","f","o","r","m","a","t">> THEN { <<"j","s","o","n">>, <<"m","a","r","k","d","o","w","n">> }
    ELSE IF flag = <<"-","-","m","i","n">> THEN { <<"3">>, <<"1","0">> }
    ELSE IF flag = <<"-","-","e","x","c","l","u","d","e">> THEN { <<"a">>, <<"a",",","b">> }
    ELSE { <<"x">>, <<"-","-","j","s","o","n">> }

\* The command lines parseArgs is called with: none, or a flag with its
\* value, written `--flag=v` or `--flag v`, alone or between other flags.
FlaggedValues ==
    UNION { UNION { { << flag \o <<"=">> \o v >>, << flag, v >> } :
                      v \in ValuePool(flag) } :
              flag \in ValueFlagPool }

FlagCommandLines ==
    { <<>> } \cup
    { before \o flagged \o after :
        before \in { <<>>, << <<"-","-","m","d">> >> },
        after \in { <<>>, << <<"-","-","n","o","-","e","n","u","m","s">> >>,
                    << <<"-","-","m","i","n","=","4">> >> },
        flagged \in FlaggedValues }

\* The texts formatSnippet is called with.
RawSnippetPool ==
    { <<>>, <<"a","b","c">>, <<"a","b","c","d">>, <<"a"," "," ","b","\n"," ","c">>, <<"a","b","/","*"," ","c"," ","*","/","c","d">>, <<"a","b","c","d","e","f","g","h">>, <<" "," ","a","b"," "," ","/","/"," ","c">> }

UtilInit ==
    /\ \/ /\ callee = "matchesExclude"
          /\ \E rel \in RelPathPool, patterns \in ExcludeLists :
                callArgs = <<rel, patterns>>
       \/ /\ callee = "parseArgs"
          /\ \E args \in FlagCommandLines : callArgs = <<args>>
       \/ /\ callee = "formatSnippet"
          /\ \E raw \in RawSnippetPool, maxLength \in 0..MaxSnippetLength :
                callArgs = <<raw, maxLength>>
    /\ returned = <<>>
    /\ callDone = FALSE
    /\ GroupIdle
    /\ NormIdle
    /\ CollectIdle
    /\ RunIdle

\* One call of matchesExclude(relPathPosix, patterns).
CallMatchesExclude ==
    /\ callee = "matchesExclude"
    /\ ~callDone
    /\ returned' = matchesExclude(callArgs[1], callArgs[2])
    /\ callDone' = TRUE
    /\ UNCHANGED <<callee, callArgs>>
    /\ UNCHANGED <<gvars, nvars, cvars, rvars>>

\* One call of parseArgs(argv).
CallParseArgs ==
    /\ callee = "parseArgs"
    /\ ~callDone
    /\ returned' = parseArgs(callArgs[1])
    /\ callDone' = TRUE
    /\ UNCHANGED <<callee, callArgs>>
    /\ UNCHANGED <<gvars, nvars, cvars, rvars>>

\* One call of formatSnippet(rawSnippet, maxLength).
CallFormatSnippet ==
    /\ callee = "formatSnippet"
    /\ ~callDone
    /\ returned' = formatSnippet(callArgs[1], callArgs[2])
    /\ callDone' = TRUE
    /\ UNCHANGED <<callee, callArgs>>
    /\ UNCHANGED <<gvars, nvars, cvars, rvars>>

UtilNext ==
    \/ CallMatchesExclude
    \/ CallParseArgs
    \/ CallFormatSnippet

SpecUtil == UtilInit /\ [][UtilNext]_vars

(***************************************************************************)
(* Claims about the grouping engine.                                       *)
(***************************************************************************)
GroupLists == {nameGroups, shapeGroups}
KeyFns == {"name", "normalizedShape"}
MapOf(keyFn) == IF keyFn = "name" THEN nameMap ELSE shapeMap
GroupsOf(keyFn) == IF keyFn = "name" THEN nameGroups ELSE shapeGroups

\* The number of records of the input that have `key` under `keyFn`.
CountOfKey(key, keyFn) ==
    Cardinality({i \in 1..Len(inputAtStart) : KeyOf(inputAtStart[i], keyFn) = key})

\* C1 as the spec states it: the groups come out by descending member count,
\* and two groups of equal count by ascending lexicographic (code unit)
\* comparison of their keys.
C1_OrderedLexicographic ==
    \A gs \in GroupLists : \A i, j \in 1..Len(gs) :
        i < j =>
            \/ Len(gs[i].items) > Len(gs[j].items)
            \/ /\ Len(gs[i].items) = Len(gs[j].items)
               /\ CompareCodeUnits(gs[i].key, gs[j].key) < 0

\* C1 amended: the groups come out by descending member count, and two groups
\* of equal count in the order of localeCompare on their keys (the earlier
\* key does not compare greater than the later one).
C1_OrderedByLocaleCompare ==
    \A gs \in GroupLists : \A i, j \in 1..Len(gs) :
        i < j =>
            \/ Len(gs[i].items) > Len(gs[j].items)
            \/ /\ Len(gs[i].items) = Len(gs[j].items)
               /\ localeCompare(gs[i].key, gs[j].key) <= 0

\* A pass has produced two name groups of equal size whose keys localeCompare
\* and the code units order differently, and two shape groups of sizes 3, 2.
C1_Witness ==
    /\ groupRuns > 0
    /\ Len(nameGroups) = 2
    /\ Len(nameGroups[1].items) = Len(nameGroups[2].items)
    /\ CompareCodeUnits(nameGroups[1].key, nameGroups[2].key) > 0
    /\ Len(shapeGroups) = 2
    /\ Len(shapeGroups[1].items) = 3
    /\ Len(shapeGroups[2].items) = 2

\* C2: after groupBy and filterDuplicateGroups a key has a group exactly when
\* at least minCount records have it, and no key has two groups.
C2_GroupIffMinCount ==
    groupRuns > 0 =>
        \A keyFn \in KeyFns :
            /\ \A key \in NamePool \cup ShapePool :
                  (\E i \in 1..Len(GroupsOf(keyFn)) : GroupsOf(keyFn)[i].key = key)
                      <=> CountOfKey(key, keyFn) >= minCount
            /\ \A i, j \in 1..Len(GroupsOf(keyFn)) :
                  GroupsOf(keyFn)[i].key = GroupsOf(keyFn)[j].key => i = j

\* A pass with minCount = 2 over a list in which one name occurs once (and has
\* no group) and another exactly twice (and has one).
C2_Witness ==
    /\ groupRuns > 0
    /\ minCount = 2
    /\ \E key \in NamePool : CountOfKey(key, "name") = 1
    /\ \E key \in NamePool : CountOfKey(key, "name") = 2
    /\ Len(nameGroups) = 1

\* C3: the buckets of groupBy partition the input: each bucket holds exactly
\* the items of its key, in input order, each item once, and every item is in
\* the bucket of its key.
C3_BucketsPartitionInput ==
    groupRuns > 0 =>
        \A keyFn \in KeyFns :
            /\ \A i \in 1..Len(MapOf(keyFn)) :
                  MapOf(keyFn)[i].items =
                      SelectSeq(inputAtStart,
                                LAMBDA d : KeyOf(d, keyFn) = MapOf(keyFn)[i].key)
            /\ \A i, j \in 1..Len(MapOf(keyFn)) :
                  MapOf(keyFn)[i].key = MapOf(keyFn)[j].key => i = j
            /\ \A k \in 1..Len(inputAtStart) :
                  \E i \in 1..Len(MapOf(keyFn)) :
                      MapOf(keyFn)[i].key = KeyOf(inputAtStart[k], keyFn)

\* groupBy has made a bucket of three items that are not adjacent in the input.
C3_Witness ==
    /\ groupRuns > 0
    /\ Len(nameMap) >= 2
    /\ \E i \in 1..Len(nameMap) :
          /\ Len(nameMap[i].items) = 3
          /\ nameMap[i].items[1].line = 1
          /\ nameMap[i].items[2].line = 3
          /\ nameMap[i].items[3].line = 5

C5_NoEmptyFingerprintGroup ==
    \A i \in 1..Len(shapeGroups) : shapeGroups[i].key # <<>>

(***************************************************************************)
(* Claims about the shape normalizer.                                      *)
(***************************************************************************)
\* Whether index i of text is where an identifier starts or ends: the
\* characters on its two sides are not both identifier characters.
IdentifierEdgeAt(text, i) ==
    ~ /\ i > 1 /\ i - 1 <= Len(text) /\ IsIdentChar(text[i - 1])
      /\ i >= 1 /\ i <= Len(text) /\ IsIdentChar(text[i])

\* Whether `name` occurs in text at index i as a whole identifier.
IsIdentifierAt(text, i, name) ==
    /\ StartsWithAt(text, i, name)
    /\ IdentifierEdgeAt(text, i)
    /\ IdentifierEdgeAt(text, i + Len(name))

\* text with every occurrence of `name` as a whole identifier replaced by the
\* placeholder, from index i on.
RECURSIVE ReplaceIdentifier(_, _, _)
ReplaceIdentifier(text, i, name) ==
    IF i > Len(text) THEN <<>>
    ELSE IF IsIdentifierAt(text, i, name)
    THEN PLACEHOLDER \o ReplaceIdentifier(text, i + Len(name), name)
    ELSE <<text[i]>> \o ReplaceIdentifier(text, i + 1, name)

\* The pieces of a member list with the pieces that are `name` replaced.
RenamedPieces(pieces, name) ==
    [i \in 1..Len(pieces) |-> IF pieces[i] = name THEN PLACEHOLDER ELSE pieces[i]]

\* type __NAME__ = { members }
TargetShape(members, name) ==
    <<"t","y","p","e"," ","_","_","N","A","M","E","_","_"," ","="," ","{"," ">> \o Flatten(RenamedPieces(Flatten(members), name)) \o <<"}">>

\* C6: the interface form and the type-alias form of a declaration, exported
\* or not, with or without a trailing semicolon, whatever the name, both
\* normalize to `type __NAME__ = { members }`.
C6_InterfaceEqualsTypeAlias ==
    (normDone /\ rawSnippet = plainSnippet /\ declForm \in {"interface", "type"}) =>
        normalizedShape = TargetShape(declMembers, declName)

\* Whether `name` occurs in text at index i as a whole word, in the sense of
\* the pattern's \b: a word boundary on either side.
IsWholeWordAt(text, i, name) ==
    /\ StartsWithAt(text, i, name)
    /\ WordBoundaryAt(text, i)
    /\ WordBoundaryAt(text, i + Len(name))

\* C7: the fingerprint never contains the declaration name as a whole word.
C7_FingerprintNeverContainsName ==
    normDone =>
        \A i \in 1..Len(normalizedShape) :
            ~IsWholeWordAt(normalizedShape, i, declName)

\* C8: the name replacement turns exactly the occurrences of the name as a
\* whole identifier into the placeholder and leaves every other character,
\* an occurrence inside a longer identifier included, as it is.
C8_ReplacesExactlyWholeWords ==
    normDone => namedText = ReplaceIdentifier(compactText, 1, declName)

\* C9: a comment or whitespace inserted between two tokens of the body does
\* not change the fingerprint.
C9_CommentAndWhitespaceInvariant ==
    normDone => normalizedShape = normalizeShape(plainSnippet, declName)

(***************************************************************************)
(* Claims about the declaration extractor.                                 *)
(***************************************************************************)
\* The place of a re-export record's name among the elements of the export
\* statement on the record's line.
ElementIndex(record) ==
    LET statement == CHOOSE s \in Range(sourceFile.children) : s.line = record.line
    IN  CHOOSE k \in 1..Len(statement.elements) :
            statement.elements[k].name = record.name

\* C10: collectDeclarations returns the re-export records first, by statement
\* and within a statement by element, and then the interface, type-alias and
\* enum records in document order.
C10_ReExportsFirstThenDocumentOrder ==
    collectDone =>
        \A i, j \in 1..Len(records) :
            i < j =>
                /\ records[j].isReExport => records[i].isReExport
                /\ (records[i].isReExport /\ records[j].isReExport) =>
                      \/ records[i].line < records[j].line
                      \/ /\ records[i].line = records[j].line
                         /\ ElementIndex(records[i]) < ElementIndex(records[j])
                /\ (~records[i].isReExport /\ ~records[j].isReExport) =>
                      records[i].line < records[j].line

\* A file in which two declarations stand before a re-export statement of
\* two elements: the records are the two re-exports, then the two
\* declarations in the order of their lines.
C10_Witness ==
    /\ collectDone
    /\ Len(records) = 4
    /\ records[1].isReExport /\ records[1].name = <<"A">>
    /\ records[2].isReExport /\ records[2].name = <<"C">>
    /\ ~records[3].isReExport /\ ~records[4].isReExport
    /\ records[3].line < records[4].line
    /\ records[4].line < records[1].line

\* Whether a statement is a named export with a module specifier:
\* export { ... } from "...".
IsNamedReExport(statement) ==
    /\ statement.kind = "ExportDeclaration"
    /\ statement.moduleSpecifier
    /\ statement.clause = "named"

\* The places in records of the re-export records of the statement on `line`.
ReExportIndexes(line) ==
    {k \in 1..Len(records) : records[k].kind = "reexport" /\ records[k].line = line}

\* C11: each element of a named export clause with a module specifier yields
\* exactly one record, named by the element's exported name, of kind reexport
\* with isReExport = true and no property names; a wildcard re-export, a
\* named export without a module specifier and any other statement yield no
\* re-export record.
C11_OneRecordPerReExportedName ==
    collectDone =>
        /\ \A s \in Range(sourceFile.children) :
              IF IsNamedReExport(s)
              THEN /\ Cardinality(ReExportIndexes(s.line)) = Len(s.elements)
                   /\ \A e \in 1..Len(s.elements) :
                         Cardinality({k \in ReExportIndexes(s.line) :
                                        records[k].name = s.elements[e].name}) = 1
              ELSE ReExportIndexes(s.line) = {}
        /\ \A k \in 1..Len(records) :
              records[k].kind = "reexport" =>
                  /\ records[k].isReExport
                  /\ records[k].propertyNames = <<>>
                  /\ \E s \in Range(sourceFile.children) : s.line = records[k].line

\* A file of `export { A, B as C } from`, `export * from` and `export { A }`:
\* its records are the two re-exports A and C.
C11_Witness ==
    /\ collectDone
    /\ Len(sourceFile.children) = 3
    /\ \E s \in Range(sourceFile.children) : IsNamedReExport(s) /\ Len(s.elements) = 2
    /\ \E s \in Range(sourceFile.children) :
          s.kind = "ExportDeclaration" /\ s.moduleSpecifier /\ s.clause = "none"
    /\ \E s \in Range(sourceFile.children) :
          s.kind = "ExportDeclaration" /\ ~s.moduleSpecifier
    /\ Len(records) = 2
    /\ records[1].name = <<"A">> /\ records[1].kind = "reexport"
    /\ records[2].name = <<"C">> /\ records[2].kind = "reexport"

\* The records of a list that are not of kind enum.
WithoutEnums(list) == SelectSeq(list, LAMBDA r : r.kind # "enum")

\* C12: every record has one of the four kinds, isReExport is true exactly
\* for kind reexport, an enum record exists only when includeEnums is true,
\* and the records that are not enums are the same under either value of
\* includeEnums.
C12_KindsClosedAndEnumsOptional ==
    collectDone =>
        /\ \A k \in 1..Len(records) :
              /\ records[k].kind \in {"interface", "type", "enum", "reexport"}
              /\ records[k].isReExport <=> records[k].kind = "reexport"
              /\ records[k].kind = "enum" => includeEnums
        /\ WithoutEnums(records)
              = WithoutEnums(collectDeclarations(sourceFile, ~includeEnums))

\* A file with an enum, an interface and a re-export statement, read with
\* includeEnums = false: three records, none of them the enum.
C12_Witness ==
    /\ collectDone
    /\ ~includeEnums
    /\ \E s \in Range(sourceFile.children) : s.kind = "EnumDeclaration"
    /\ Len(records) = 3
    /\ records[1].kind = "reexport"
    /\ records[3].kind = "interface"

(***************************************************************************)
(* Claims about run().                                                     *)
(***************************************************************************)
\* run() has gone through the collection and the report.
Reported == phase = "done" /\ Len(files) > 0

\* The records among the collected ones that take part in the grouping
\* according to the claim: all of them, or all but the re-exports.
TakesPart(d) == ~options.skipReExports \/ ~d.isReExport

\* How many of the collected records that take part have `key` under keyFn.
CountTakingPart(key, keyFn) ==
    Cardinality({k \in 1..Len(declarations) :
                    TakesPart(declarations[k]) /\ KeyOf(declarations[k], keyFn) = key})

\* The declarationsScanned the report states.
DeclarationsScannedReported ==
    IF stdout[1].kind = "json" THEN stdout[1].body.json.declarationsScanned
    ELSE IF stdout[1].kind = "markdown" THEN stdout[1].body[8][2]
    ELSE stdout[1].body[3][2]

\* C13: with skipReExports no group holds a re-export record and re-export
\* records count neither toward a group's size nor toward
\* declarationsScanned; without it every record is grouped and counted.
C13_ReExportsSkippedBeforeGrouping ==
    Reported =>
        /\ \A keyFn \in KeyFns :
              /\ \A g \in 1..Len(GroupsOf(keyFn)) :
                    /\ \A i \in 1..Len(GroupsOf(keyFn)[g].items) :
                          TakesPart(GroupsOf(keyFn)[g].items[i])
                    /\ Len(GroupsOf(keyFn)[g].items)
                          = CountTakingPart(GroupsOf(keyFn)[g].key, keyFn)
              /\ \A k \in 1..Len(declarations) :
                    (TakesPart(declarations[k])
                       /\ CountTakingPart(KeyOf(declarations[k], keyFn), keyFn)
                             >= options.minCount)
                      => \E g \in 1..Len(GroupsOf(keyFn)) :
                            GroupsOf(keyFn)[g].key = KeyOf(declarations[k], keyFn)
        /\ DeclarationsScannedReported
              = Cardinality({k \in 1..Len(declarations) : TakesPart(declarations[k])})

\* a.ts and r.ts read with the default options: the declaration User and the
\* re-export User are collected, no name group is made of them and one
\* declaration is reported as scanned.
C13_Witness ==
    /\ Reported
    /\ options.skipReExports
    /\ Len(declarations) = 2
    /\ \E k \in 1..2 : declarations[k].isReExport
    /\ declarations[1].name = declarations[2].name
    /\ nameGroups = <<>>
    /\ DeclarationsScannedReported = 1

\* The records and the errors collected for the file at place i of files.
RecordsOfFile(i) ==
    SelectSeq(declarations, LAMBDA d : d.file = RelativeToCwd(files[i].path))
ErrorsOfFile(i) ==
    SelectSeq(errors, LAMBDA e : e.file = RelativeToCwd(files[i].path))

\* C14: when collectAllDeclarations has returned, each file that could not
\* be read has exactly one error entry and no record, each file that could
\* has all of its records and no error entry, and the error entries and the
\* files read add up to the files.
C14_FailuresIsolatedPerFile ==
    phase \in {"collected", "done"} /\ Len(files) > 0 =>
        /\ \A i \in 1..Len(files) :
              IF files[i].readable
              THEN /\ RecordsOfFile(i)
                        = collectDeclarations(
                              SourceFileNamed(RelativeToCwd(files[i].path),
                                              files[i].statements),
                              options.includeEnums)
                   /\ ErrorsOfFile(i) = <<>>
              ELSE /\ RecordsOfFile(i) = <<>>
                   /\ Len(ErrorsOfFile(i)) = 1
        /\ Len(errors) + Cardinality({i \in 1..Len(files) : files[i].readable})
              = Len(files)

\* Two files of which the first could not be read: one error entry, and the
\* record of the second.
C14_Witness ==
    /\ phase = "collected"
    /\ Len(files) = 2
    /\ ~files[1].readable
    /\ files[2].readable
    /\ Len(errors) = 1
    /\ Len(declarations) = 1

\* The flags that take a value.
ValueFlags ==
    {<<"-","-","f","o","r","m","a","t">>, <<"-","-","m","o","d","e">>, <<"-","-","o","u","t","p","u","t">>, <<"-","-","o","u","t">>, <<"-","-","r","o","o","t">>, <<"-","-","t","s","c","o","n","f","i","g">>,
     <<"-","-","e","x","c","l","u","d","e">>, <<"-","-","m","i","n">>}

\* Arguments of the pool that carry an invalid value: a --min that is no
\* integer >= 2, a --mode or --format outside the allowed set, an empty value.
InvalidInline ==
    {<<"-","-","m","i","n","=","1">>, <<"-","-","m","i","n","=","x">>, <<"-","-","m","o","d","e","=","b","o","g","u","s">>, <<"-","-","f","o","r","m","a","t","=","x","m","l">>}
        \cup {flag \o <<"=">> : flag \in ValueFlags}

\* Values of the pool that the flag in the slot before them does not allow.
InvalidValueFor(flag, value) ==
    \/ value = <<>>
    \/ flag = <<"-","-","m","o","d","e">> /\ value \notin {<<"n","a","m","e">>, <<"s","h","a","p","e">>, <<"b","o","t","h">>}
    \/ flag = <<"-","-","f","o","r","m","a","t">> /\ value \notin {<<"t","e","x","t">>, <<"j","s","o","n">>, <<"m","a","r","k","d","o","w","n">>}
    \/ flag = <<"-","-","m","i","n">> /\ value \notin {<<"2">>, <<"3">>}

\* Whether the command line has an argument with an invalid value, in a slot
\* that is not itself the value of the flag before it.
HasInvalidArgument(args) ==
    \E i \in 1..Len(args) :
        /\ i = 1 \/ args[i - 1] \notin ValueFlags
        /\ \/ args[i] \in InvalidInline
           \/ /\ args[i] \in ValueFlags
              /\ InvalidValueFor(args[i], ArgAt(args, i + 1))

\* C15: when the command line has an invalid value, parseArgs throws and
\* run() ends with exit code 1 before any file is discovered or read and
\* before anything is reported.
C15_ConfigurationErrorBeforeAnyWork ==
    (HasInvalidArgument(argv) /\ phase # "start") =>
        /\ phase = "failed"
        /\ exitCode = 1
        /\ files = <<>>
        /\ readsStarted = 0
        /\ declarations = <<>>
        /\ stdout = <<>>
        /\ written = <<>>

\* `--json --output` has failed: the value of --output is missing.
C15_Witness ==
    /\ phase = "failed"
    /\ argv = <<<<"-","-","j","s","o","n">>, <<"-","-","o","u","t","p","u","t">>>>
    /\ readsStarted = 0

\* C16: a run that ends without a fatal error exits with code 1 exactly when
\* --fail-on-duplicates is set and a group exists in a requested mode, and
\* with code 0 otherwise.
C16_ExitCodeOneIffRequestedDuplicates ==
    phase = "done" =>
        /\ exitCode \in {0, 1}
        /\ exitCode = 1 <=>
              /\ options.failOnDuplicates
              /\ \/ options.mode \in {<<"n","a","m","e">>, <<"b","o","t","h">>} /\ Len(nameGroups) > 0
                 \/ options.mode \in {<<"s","h","a","p","e">>, <<"b","o","t","h">>} /\ Len(shapeGroups) > 0

\* With --fail-on-duplicates and mode shape, a name group exists and no
\* shape group: the run exits with code 0.
C16_Witness ==
    /\ phase = "done"
    /\ options.failOnDuplicates
    /\ options.mode = <<"s","h","a","p","e">>
    /\ Len(nameGroups) > 0
    /\ Len(shapeGroups) = 0
    /\ exitCode = 0

\* The JSON documents run() has produced: printed or written to a file.
JsonDocuments ==
    {stdout[k].body : k \in {j \in 1..Len(stdout) : stdout[j].kind = "json"}}
        \cup {written[k].content.body :
                k \in {j \in 1..Len(written) : written[j].content.kind = "json"}}

\* Whether the entries of a payload are those of the groups: one entry per
\* group in order, its count the number of its declarations, which are the
\* group's members in order.
EntriesMatch(entries, groups, keyField) ==
    /\ Len(entries) = Len(groups)
    /\ \A g \in 1..Len(groups) :
          /\ entries[g][keyField] = groups[g].key
          /\ entries[g].count = Len(entries[g].declarations)
          /\ Len(entries[g].declarations) = Len(groups[g].items)
          /\ \A i \in 1..Len(groups[g].items) :
                /\ entries[g].declarations[i].file = groups[g].items[i].file
                /\ entries[g].declarations[i].line = groups[g].items[i].line
                /\ entries[g].declarations[i].name = groups[g].items[i].name
                /\ entries[g].declarations[i].kind = groups[g].items[i].kind

\* C17: the payload has the name groups unless the mode is shape and the
\* shape groups unless the mode is name, an empty list otherwise; and it has
\* an errors field exactly when there are errors.
C17_PayloadGroupsOfRequestedMode ==
    \A doc \in JsonDocuments :
        /\ IF options.mode = <<"s","h","a","p","e">>
           THEN doc.json.duplicateNameGroups = <<>>
           ELSE EntriesMatch(doc.json.duplicateNameGroups, nameGroups, "name")
        /\ IF options.mode = <<"n","a","m","e">>
           THEN doc.json.duplicateShapeGroups = <<>>
           ELSE EntriesMatch(doc.json.duplicateShapeGroups, shapeGroups, "shape")
        /\ doc.hasErrors <=> Len(errors) > 0

\* A JSON report in mode name while a shape group exists: the payload has
\* the name group and no shape group.
C17_Witness ==
    /\ Reported
    /\ options.mode = <<"n","a","m","e">>
    /\ Len(shapeGroups) = 1
    /\ \E doc \in JsonDocuments :
          /\ Len(doc.json.duplicateNameGroups) = 1
          /\ doc.json.duplicateNameGroups[1].count = 2
          /\ doc.json.duplicateShapeGroups = <<>>

\* C18: with --output and format json or markdown the report is written to
\* the output file and is not printed to stdout.
C18_ReportToFileNotStdout ==
    (Reported /\ options.outputFile # NULL
       /\ options.format \in {<<"j","s","o","n">>, <<"m","a","r","k","d","o","w","n">>}) =>
        /\ \E k \in 1..Len(written) : written[k].path = options.outputFile
        /\ \A k \in 1..Len(stdout) : stdout[k].kind \notin {"json", "markdown"}

\* C19: with --output and format text the file written holds the text
\* report, the one printed to stdout, and no JSON document.
C19_TextOutputFileHoldsTextReport ==
    (Reported /\ options.outputFile # NULL /\ options.format = <<"t","e","x","t">>) =>
        /\ Len(written) = 1
        /\ written[1].content.kind = "text"
        /\ written[1].content = stdout[1]

\* C20: a.ts with `interface User { id: string; name: string; }` and b.ts
\* with `type User = { id: string; name: string; }`, mode both and minCount
\* 2: one name group, User, and one shape group,
\* `type __NAME__ = { id: string; name: string; }`, each with the two
\* declarations in the order of the files.
C20_InterfaceAndAliasGroupedTogether ==
    (/\ Reported
     /\ Len(files) = 2
     /\ {files[1].path, files[2].path} = {<<"/","w","/","a",".","t","s">>, <<"/","w","/","b",".","t","s">>}
     /\ files[1].readable /\ files[2].readable
     /\ options.mode = <<"b","o","t","h">>
     /\ options.minCount = 2) =>
        /\ Len(nameGroups) = 1
        /\ nameGroups[1].key = <<"U","s","e","r">>
        /\ Len(nameGroups[1].items) = 2
        /\ Len(shapeGroups) = 1
        /\ shapeGroups[1].key = <<"t","y","p","e"," ","_","_","N","A","M","E","_","_"," ","="," ","{"," ","i","d",":"," ","s","t","r","i","n","g",";"," ","n","a","m","e",":"," ","s","t","r","i","n","g",";"," ","}">>
        /\ Len(shapeGroups[1].items) = 2
        /\ \A groups \in {nameGroups, shapeGroups} : \A i \in 1..2 :
              groups[1].items[i].file = RelativeToCwd(files[i].path)

\* The run over a.ts, then b.ts, with no argument has reported.
C20_Witness ==
    /\ Reported
    /\ argv = <<>>
    /\ Len(files) = 2
    /\ files[1].path = <<"/","w","/","a",".","t","s">> /\ files[1].readable
    /\ files[2].path = <<"/","w","/","b",".","t","s">> /\ files[2].readable
    /\ Len(shapeGroups) = 1
    /\ shapeGroups[1].items[1].kind = "interface"
    /\ shapeGroups[1].items[2].kind = "type"

(***************************************************************************)
(* Claims about the functions of utils.ts.                                 *)
(***************************************************************************)
\* text without one leading `./`
WithoutDotSlash(text) ==
    IF Len(text) >= 2 /\ text[1] = "." /\ text[2] = "/"
    THEN [i \in 1..(Len(text) - 2) |-> text[i + 2]]
    ELSE text

\* text without a leading `./` and the slashes that directly follow it
WithoutDotSlashes(text) ==
    IF Len(text) >= 2 /\ text[1] = "." /\ text[2] = "/"
    THEN LET first == CHOOSE k \in 3..(Len(text) + 1) :
                          /\ \A j \in 3..(k - 1) : text[j] = "/"
                          /\ k > Len(text) \/ text[k] # "/"
         IN  [i \in 1..(Len(text) - first + 1) |-> text[first + i - 1]]
    ELSE text

\* Whether pat is text, or a prefix of text followed by /, or occurs in text.
EqualPrefixOrPart(text, pat) ==
    \/ text = pat
    \/ /\ Len(text) > Len(pat)
       /\ \A i \in 1..Len(pat) : text[i] = pat[i]
       /\ text[Len(pat) + 1] = "/"
    \/ \E from \in 0..(Len(text) - Len(pat)) :
          \A i \in 1..Len(pat) : text[from + i] = pat[i]

\* C21 as stated: matchesExclude is true exactly when some pattern, trimmed
\* and without a leading `./`, is not empty and is rel without its leading
\* `./`, a prefix of it followed by /, or a part of it.
C21_MatchesAfterDotSlashRemoved ==
    (callee = "matchesExclude" /\ callDone) =>
        (returned <=>
            \E k \in 1..Len(callArgs[2]) :
                /\ WithoutDotSlash(Trim(callArgs[2][k])) # <<>>
                /\ EqualPrefixOrPart(WithoutDotSlash(callArgs[1]),
                                     WithoutDotSlash(Trim(callArgs[2][k]))))

\* C21: the same, where what is removed from a pattern and from rel is a
\* leading `./` together with the slashes that directly follow it. The
\* result is false for an empty list and for a list of blank patterns.
C21_MatchesAfterDotSlashesRemoved ==
    (callee = "matchesExclude" /\ callDone) =>
        /\ returned <=>
              \E k \in 1..Len(callArgs[2]) :
                  /\ WithoutDotSlashes(Trim(callArgs[2][k])) # <<>>
                  /\ EqualPrefixOrPart(WithoutDotSlashes(callArgs[1]),
                                       WithoutDotSlashes(Trim(callArgs[2][k])))
        /\ (\A k \in 1..Len(callArgs[2]) : Trim(callArgs[2][k]) = <<>>)
              => ~returned

\* matchesExclude("a", [" ", ".//a"]) has returned true: the blank pattern
\* matches nothing and `.//a` stands for `a`.
C21_Witness ==
    /\ callee = "matchesExclude"
    /\ callDone
    /\ callArgs = <<<<"a">>, <<<<" ">>, <<".","/","/","a">>>>>>
    /\ returned = TRUE

\* The place of the first = of an argument, 0 if it has none.
FirstEquals(arg) ==
    IF \E i \in 1..Len(arg) : arg[i] = "="
    THEN CHOOSE i \in 1..Len(arg) : arg[i] = "=" /\ \A j \in 1..(i - 1) : arg[j] # "="
    ELSE 0

\* Whether an argument is `--flag=v` for a flag that takes a value.
IsInline(arg) ==
    /\ FirstEquals(arg) > 1
    /\ [i \in 1..(FirstEquals(arg) - 1) |-> arg[i]] \in ValueFlagPool

\* The command line with every `--flag=v` written as the two arguments
\* `--flag v`.
RECURSIVE SeparateValues(_)
SeparateValues(args) ==
    IF args = <<>> THEN <<>>
    ELSE IF IsInline(Head(args))
    THEN << [i \in 1..(FirstEquals(Head(args)) - 1) |-> Head(args)[i]],
            [i \in 1..(Len(Head(args)) - FirstEquals(Head(args))) |->
                Head(args)[FirstEquals(Head(args)) + i]] >>
             \o SeparateValues(Tail(args))
    ELSE <<Head(args)>> \o SeparateValues(Tail(args))

\* The options documented for the value v of a flag, on top of opts.
WithFlagValue(opts, flag, v) ==
    IF flag = <<"-","-","r","o","o","t">> THEN [opts EXCEPT !.root = v]
    ELSE IF flag = <<"-","-","t","s","c","o","n","f","i","g">> THEN [opts EXCEPT !.tsconfig = v]
    ELSE IF flag \in {<<"-","-","o","u","t","p","u","t">>, <<"-","-","o","u","t">>} THEN [opts EXCEPT !.outputFile = v]
    ELSE IF flag = <<"-","-","m","o","d","e">> THEN [opts EXCEPT !.mode = v]
    ELSE IF flag = <<"-","-","f","o","r","m","a","t">> THEN [opts EXCEPT !.format = v]
    ELSE IF flag = <<"-","-","m","i","n">>
    THEN [opts EXCEPT !.minCount = IF v = <<"3">> THEN 3 ELSE IF v = <<"4">> THEN 4 ELSE 10]
    ELSE [opts EXCEPT !.exclude = IF v = <<"a">> THEN <<<<"a">>>> ELSE <<<<"a">>, <<"b">>>>]

\* The documented defaults.
DocumentedDefaults(opts) ==
    /\ opts.root = <<"s","r","c">>
    /\ opts.mode = <<"b","o","t","h">>
    /\ opts.minCount = 2
    /\ opts.format = <<"t","e","x","t">>
    /\ opts.includeEnums = TRUE
    /\ opts.skipReExports = TRUE

\* The options expected of a command line in separated form: --md, then a
\* flag with its value, then --no-enums or --min 4.
ExpectedOptions(separated) ==
    LET first == IF separated[1] = <<"-","-","m","d">> THEN 2 ELSE 1
        start == IF first = 2
                 THEN [DefaultOptions EXCEPT !.format = <<"m","a","r","k","d","o","w","n">>]
                 ELSE DefaultOptions
        flagged == WithFlagValue(start, separated[first], separated[first + 1])
        rest == SubSeq(separated, first + 2, Len(separated))
    IN  IF rest = <<>> THEN flagged
        ELSE IF rest = << <<"-","-","n","o","-","e","n","u","m","s">> >> THEN [flagged EXCEPT !.includeEnums = FALSE]
        ELSE WithFlagValue(flagged, rest[1], rest[2])

\* C29: parseArgs gives for `--flag=v` the options it gives for `--flag v`;
\* they are the defaults with the flag's option set to v, the value being
\* consumed whatever it reads like, and the flags around it taking effect;
\* parseArgs([]) gives the documented defaults.
C29_InlineAndSeparateValueAgree ==
    (callee = "parseArgs" /\ callDone) =>
        /\ returned.ok
        /\ returned = parseArgs(SeparateValues(callArgs[1]))
        /\ IF callArgs[1] = <<>>
           THEN DocumentedDefaults(returned.options)
           ELSE returned.options = ExpectedOptions(SeparateValues(callArgs[1]))

\* parseArgs(["--output=--json", "--no-enums"]) has returned: the output
\* file is `--json`, the format is text and enums are left out.
C29_Witness ==
    /\ callee = "parseArgs"
    /\ callDone
    /\ callArgs = << << <<"-","-","o","u","t","p","u","t","=","-","-","j","s","o","n">>, <<"-","-","n","o","-","e","n","u","m","s">> >> >>
    /\ returned.options.outputFile = <<"-","-","j","s","o","n">>
    /\ returned.options.format = <<"t","e","x","t">>
    /\ ~returned.options.includeEnums

\* C30: formatSnippet returns the compact text when it has at most maxLength
\* characters; otherwise a text of exactly maxLength characters that ends
\* with `...` and starts with the first maxLength - 3 characters of the
\* compact text; the result is never longer than maxLength.
C30_SnippetNeverLongerThanMaxLength ==
    (callee = "formatSnippet" /\ callDone) =>
        LET compact == normalizeWhitespace(callArgs[1])
            maxLength == callArgs[2]
        IN  /\ Len(compact) <= maxLength => returned = compact
            /\ Len(compact) > maxLength =>
                  /\ Len(returned) = maxLength
                  /\ \A i \in 1..(maxLength - 3) : returned[i] = compact[i]
                  /\ \A i \in (maxLength - 2)..maxLength : i >= 1 /\ returned[i] = "."
            /\ Len(returned) <= maxLength

(***************************************************************************)
(* Claims about the steps of normalizeShape.                               *)
(***************************************************************************)
\* The characters i..j of text.
Segment(text, i, j) == [k \in 1..(j - i + 1) |-> text[i + k - 1]]

\* Whether seg is `interface`, whitespace, the placeholder, any whitespace
\* and an opening brace.
IsInterfaceHead(seg) ==
    \E a \in 1..Len(seg), b \in 0..Len(seg) :
        /\ Len(seg) = 9 + a + 8 + b + 1
        /\ \A i \in 1..9 : seg[i] = <<"i","n","t","e","r","f","a","c","e">>[i]
        /\ \A i \in 1..a : IsSpace(seg[9 + i])
        /\ \A i \in 1..8 : seg[9 + a + i] = <<"_","_","N","A","M","E","_","_">>[i]
        /\ \A i \in 1..b : IsSpace(seg[17 + a + i])
        /\ seg[Len(seg)] = "{"

\* The places <<i, j>> at which text has such a head as a word of its own.
InterfaceHeads(text) ==
    UNION { { <<i, j>> :
                j \in {k \in (i + 18)..Len(text) :
                          text[k] = "{" /\ IsInterfaceHead(Segment(text, i, k))} } :
              i \in {k \in 1..Len(text) :
                        text[k] = "i" /\ WordBoundaryAt(text, k)} }

\* Step 4 as the claim has it: the rewrite of a head the text begins with.
RewriteHeadAtStart(text) ==
    IF \E h \in InterfaceHeads(text) : h[1] = 1
    THEN LET h == CHOOSE g \in InterfaceHeads(text) : g[1] = 1
         IN  <<"t","y","p","e"," ","_","_","N","A","M","E","_","_"," ","="," ","{">> \o Segment(text, h[2] + 1, Len(text))
    ELSE text

\* Step 4 with the rewrite of the first head of the text, wherever it is.
RewriteFirstHead(text) ==
    IF InterfaceHeads(text) = {} THEN text
    ELSE LET h == CHOOSE g \in InterfaceHeads(text) :
                      \A f \in InterfaceHeads(text) : g[1] <= f[1]
         IN  Segment(text, 1, h[1] - 1) \o <<"t","y","p","e"," ","_","_","N","A","M","E","_","_"," ","="," ","{">>
                 \o Segment(text, h[2] + 1, Len(text))

\* Step 5: the text without a leading `export` and the whitespace after it.
WithoutLeadingExport(text) ==
    IF /\ Len(text) >= 7
       /\ \A i \in 1..6 : text[i] = <<"e","x","p","o","r","t">>[i]
       /\ IsSpace(text[7])
    THEN LET next == CHOOSE k \in 8..(Len(text) + 1) :
                         /\ \A j \in 7..(k - 1) : IsSpace(text[j])
                         /\ k > Len(text) \/ ~IsSpace(text[k])
         IN  Segment(text, next, Len(text))
    ELSE text

\* The places <<i, j>> at which text has the words `const` and `enum` with
\* whitespace between them.
ConstEnums(text) ==
    UNION { { <<i, j>> :
                j \in {k \in (i + 9)..Len(text) :
                          /\ Segment(text, k - 3, k) = <<"e","n","u","m">>
                          /\ \A l \in (i + 5)..(k - 4) : IsSpace(text[l])
                          /\ WordBoundaryAt(text, k + 1)} } :
              i \in {k \in 1..(Len(text) - 4) :
                        /\ text[k] = "c"
                        /\ Segment(text, k, k + 4) = <<"c","o","n","s","t">>
                        /\ WordBoundaryAt(text, k)} }

\* Step 6: the first `const enum` becomes `enum`.
ConstEnumToEnum(text) ==
    IF ConstEnums(text) = {} THEN text
    ELSE LET h == CHOOSE g \in ConstEnums(text) :
                      \A f \in ConstEnums(text) : g[1] <= f[1]
         IN  Segment(text, 1, h[1] - 1) \o <<"e","n","u","m">>
                 \o Segment(text, h[2] + 1, Len(text))

\* Whether text ends with a semicolon, whitespace after it or not.
EndsWithSemicolon(text) ==
    \E i \in 1..Len(text) :
        text[i] = ";" /\ \A j \in (i + 1)..Len(text) : IsSpace(text[j])

\* Step 7: the text without its trailing semicolon and the whitespace
\* around it.
WithoutTrailingSemicolon(text) ==
    IF EndsWithSemicolon(text)
    THEN LET semi == CHOOSE i \in 1..Len(text) :
                         text[i] = ";" /\ \A j \in (i + 1)..Len(text) : IsSpace(text[j])
             last == CHOOSE k \in 0..(semi - 1) :
                         /\ \A j \in (k + 1)..(semi - 1) : IsSpace(text[j])
                         /\ k = 0 \/ ~IsSpace(text[k])
         IN  Segment(text, 1, last)
    ELSE text

\* Steps 1 to 3 are done in this order.
FirstThreeStepsInOrder ==
    /\ compactText =
          Trim(CollapseWhitespace(
                   StripLineComments(StripBlockComments(rawSnippet, 1), 1), 1))
    /\ namedText = ReplaceName(compactText, declName)

OtherSemicolonForm(snippet) ==
    IF snippet # <<>> /\ snippet[Len(snippet)] = ";"
    THEN Segment(snippet, 1, Len(snippet) - 1)
    ELSE snippet \o <<";">>

\* C23: the fingerprint does not end with a semicolon, and the snippet with
\* and without its final semicolon have the same fingerprint.
C23_TrailingSemicolonStripped ==
    normDone =>
        /\ ~EndsWithSemicolon(normalizedShape)
        /\ normalizedShape = normalizeShape(OtherSemicolonForm(rawSnippet), declName)

\* `type Foo = { ... } ;` has been normalized: the fingerprint ends with the
\* closing brace.
C23_Witness ==
    /\ normDone
    /\ declForm = "type"
    /\ declName = <<"F","o","o">>
    /\ Len(declMembers) = 1
    /\ Segment(rawSnippet, Len(rawSnippet) - 2, Len(rawSnippet)) = <<"}"," ",";">>
    /\ normalizedShape[Len(normalizedShape)] = "}"

(***************************************************************************)
(* Claims about the records of collectDeclarations: the fingerprint of a   *)
(* long declaration and the property names.                                *)
(***************************************************************************)
\* The nodes of a list of statements, those of namespace bodies included.
RECURSIVE NodesOf(_)
NodesOf(nodes) ==
    IF nodes = <<>> THEN {}
    ELSE {Head(nodes)} \cup NodesOf(Head(nodes).children) \cup NodesOf(Tail(nodes))

\* The node a record was made from: the statement that starts on its line.
NodeOfRecord(record) ==
    CHOOSE node \in NodesOf(sourceFile.children) : node.line = record.line

\* Two records of the same name whose source spans are longer than
\* MAX_SNIPPET_LENGTH, agree on their first MAX_SNIPPET_LENGTH characters and
\* differ after them.
DifferOnlyAfterCut(first, second) ==
    /\ first.name = second.name
    /\ Len(NodeOfRecord(first).text) > MAX_SNIPPET_LENGTH
    /\ Len(NodeOfRecord(second).text) > MAX_SNIPPET_LENGTH
    /\ SubSeq(NodeOfRecord(first).text, 1, MAX_SNIPPET_LENGTH)
           = SubSeq(NodeOfRecord(second).text, 1, MAX_SNIPPET_LENGTH)
    /\ NodeOfRecord(first).text # NodeOfRecord(second).text

\* C24: truncation is for display only. The fingerprint of every record is
\* that of the full source span of its node (of the whole export statement
\* for a re-export), so two records whose spans differ only after the first
\* MAX_SNIPPET_LENGTH characters have equal snippets and different
\* fingerprints.
C24_FingerprintFromFullSpan ==
    collectDone =>
        /\ \A i \in 1..Len(records) :
              /\ records[i].normalizedShape
                     = normalizeShape(NodeOfRecord(records[i]).text, records[i].name)
              /\ Len(records[i].snippet) <= MAX_SNIPPET_LENGTH
        /\ \A i \in 1..Len(records) : \A j \in 1..Len(records) :
              DifferOnlyAfterCut(records[i], records[j]) =>
                  /\ records[i].snippet = records[j].snippet
                  /\ records[i].normalizedShape # records[j].normalizedShape

\* Two interfaces that differ only after the cut have been collected.
C24_Witness ==
    /\ collectDone
    /\ \E i \in 1..Len(records) : \E j \in 1..Len(records) :
          /\ ~records[i].isReExport
          /\ DifferOnlyAfterCut(records[i], records[j])
          /\ records[i].snippet = records[j].snippet
          /\ records[i].normalizedShape # records[j].normalizedShape

\* Whether a list of names is in ascending order of code units.
IsAscending(names) ==
    \A i \in 1..(Len(names) - 1) : CompareCodeUnits(names[i], names[i + 1]) <= 0

\* How many times a name occurs in a list.
Occurrences(names, name) == Cardinality({i \in 1..Len(names) : names[i] = name})

\* Whether two lists hold the same names the same number of times.
SameNames(left, right) ==
    \A name \in Range(left) \cup Range(right) :
        Occurrences(left, name) = Occurrences(right, name)

\* The names of the members of a node, in document order.
NamesOfMembers(node) == [i \in 1..Len(node.members) |-> node.members[i].name]

\* Whether the record lists the members its declaration has: those of an
\* interface, of a type alias of a type literal, or of an enum.
HasMemberNames(record, node) ==
    /\ IsAscending(record.propertyNames)
    /\ record.propertyCount = Len(record.propertyNames)
    /\ SameNames(record.propertyNames,
                 IF record.isReExport THEN <<>>
                 ELSE IF node.kind = "InterfaceDeclaration" THEN NamesOfMembers(node)
                 ELSE IF node.kind = "TypeAliasDeclaration" /\ node.typeKind = "TypeLiteral"
                 THEN NamesOfMembers(node)
                 ELSE IF node.kind = "EnumDeclaration" THEN NamesOfMembers(node)
                 ELSE <<>>)

\* C25: propertyNames is the ascending list of the names of the interface's
\* member signatures, of the members of a type alias of a type literal, or of
\* the enum's members; it is empty for re-exports and for the other type
\* aliases; propertyCount is its length.
C25_PropertyNamesAreMemberNames ==
    collectDone =>
        \A i \in 1..Len(records) :
            HasMemberNames(records[i], NodeOfRecord(records[i]))

(***************************************************************************)
(* Claims about the batches of collectAllDeclarations and the barrier      *)
(* before the grouping pass.                                               *)
(***************************************************************************)
\* C26: file reading uses bounded concurrency. At every moment at most
\* `concurrency` reads (FILE_READ_CONCURRENCY in the program) are in flight,
\* they all belong to the batch that starts at offset, and while one of them
\* is in flight no read of a later batch has started.
C26_BoundedConcurrency ==
    /\ Cardinality(inFlight) <= concurrency
    /\ inFlight \subseteq (offset + 1)..(offset + concurrency)
    /\ inFlight \subseteq batch
    /\ inFlight # {} => readsStarted <= offset + concurrency
    /\ batch # {} => readsStarted = offset + Cardinality(batch)

\* The second batch is being read after a first batch that was full.
C26_Witness ==
    /\ phase = "collecting"
    /\ concurrency = 2
    /\ Len(files) = 3
    /\ offset = 2
    /\ inFlight = {3}
    /\ readsStarted = 3
    /\ Len(declarations) + Len(errors) >= 2

\* The records and the errors of the first k files of the file list, in the
\* order of the list.
RECURSIVE RecordsOfFiles(_)
RecordsOfFiles(k) ==
    IF k = 0 THEN <<>>
    ELSE RecordsOfFiles(k - 1)
             \o (IF files[k].readable
                 THEN collectDeclarations(
                          SourceFileNamed(RelativeToCwd(files[k].path), files[k].statements),
                          options.includeEnums)
                 ELSE <<>>)

RECURSIVE ErrorsOfFiles(_)
ErrorsOfFiles(k) ==
    IF k = 0 THEN <<>>
    ELSE ErrorsOfFiles(k - 1)
             \o (IF files[k].readable THEN <<>>
                 ELSE <<[file |-> RelativeToCwd(files[k].path), error |-> "ENOENT"]>>)

\* Whether the grouping pass of run() has not started: nothing has been
\* grouped.
NothingGrouped ==
    /\ effectiveDeclarations = <<>>
    /\ nameMap = <<>>
    /\ shapeMap = <<>>
    /\ nameGroups = <<>>
    /\ shapeGroups = <<>>

\* C27: grouping runs behind a full barrier. Until every file of the list has
\* been read and its result pushed, nothing is grouped; what is grouped is the
\* complete record list, and the groups are those of one pass over it.
C27_GroupingBehindFullBarrier ==
    /\ phase \in {"start", "parsed", "collecting", "collected"} => NothingGrouped
    /\ ~NothingGrouped =>
          /\ phase = "done"
          /\ readsStarted = Len(files)
          /\ inFlight = {}
          /\ offset >= Len(files)
          /\ effectiveDeclarations
                 = FilterReExports(RecordsOfFiles(Len(files)), options.skipReExports)
          /\ nameMap = groupBy(effectiveDeclarations, "name")
          /\ shapeMap = groupBy(effectiveDeclarations, "normalizedShape")
          /\ nameGroups = filterDuplicateGroups(nameMap, options.minCount)
          /\ shapeGroups = filterDuplicateGroups(shapeMap, options.minCount)

\* The groups of a run over three files read in two batches hold a record of
\* the last batch.
C27_Witness ==
    /\ phase = "done"
    /\ concurrency < Len(files)
    /\ Len(files) = 3
    /\ Len(nameGroups) = 1
    /\ \E i \in 1..Len(nameGroups[1].items) :
          nameGroups[1].items[i].file = RelativeToCwd(files[3].path)

\* C28: the record list and the error list are ordered by position in the file
\* list, each file's records together and in extraction order, whatever the
\* order in which the reads of a batch settled.
C28_RecordsInFileListOrder ==
    /\ phase = "collecting" /\ batch = {} =>
          /\ declarations = RecordsOfFiles(offset)
          /\ errors = ErrorsOfFiles(offset)
    /\ phase \in {"collected", "done"} =>
          /\ declarations = RecordsOfFiles(Len(files))
          /\ errors = ErrorsOfFiles(Len(files))
    /\ phase = "done" =>
          \A keyFn \in KeyFns : \A g \in 1..Len(GroupsOf(keyFn)) :
              \A i, j \in 1..Len(GroupsOf(keyFn)[g].items) :
                  i < j =>
                      \E k, l \in 1..Len(files) :
                          /\ k <= l
                          /\ GroupsOf(keyFn)[g].items[i].file = RelativeToCwd(files[k].path)
                          /\ GroupsOf(keyFn)[g].items[j].file = RelativeToCwd(files[l].path)

\* The two reads of the last batch settled in the reverse order of the file
\* list, and both files gave records.
C28_Witness ==
    /\ phase = "collected"
    /\ Len(settled) = 2
    /\ settled[1].index > settled[2].index
    /\ settled[1].ok /\ settled[1].records # <<>>
    /\ settled[2].ok /\ settled[2].records # <<>>
    /\ Len(declarations) >= 2

====
